---- MODULE Spec2Model ----
(***************************************************************************)
(* Model of the Glassnode API client: GlassnodeAPIClient.fetch_bulk_metric, *)
(* _paginated_bulk_fetch and fetch_metric (glassnode_client.py),           *)
(* merge_bulk_data, calculate_since_for_limit, convert_bulk_to_dataframe   *)
(* and convert_to_dataframe with their helpers (utils.py).                 *)
(*                                                                         *)
(* One call of _paginated_bulk_fetch is a behaviour of Spec, SpecStitch or *)
(* SpecPaired, which differ in the page source (SpecWalkFair is Spec with  *)
(* the fairness that makes the loop run on):                               *)
(* Init is the state after lines 346-360 (window size, accumulators, first *)
(* window), each Chunk step is one iteration of the "while True" loop      *)
(* (request, emptiness test, metadata capture, merge, window update) and   *)
(* Return is lines 409-411.  The page returned by _make_request is the     *)
(* only input of a step; it is drawn from the repertoire of the page       *)
(* source.  One call of fetch_bulk_metric is a behaviour of SpecFetch      *)
(* (BulkCall, then the single request or the paginator, then Deliver), and *)
(* one call of convert_bulk_to_dataframe is a behaviour of SpecConvert.    *)
(* One call of convert_to_dataframe or of fetch_metric (MetricRequest,     *)
(* then MetricReturn) is a behaviour of SpecSeries.                        *)
(***************************************************************************)
EXTENDS Integers, Sequences, FiniteSets, TLC

VARIABLES
    source,             \* repertoire of the page source ("plain", "rich" or
                        \* "paired")
    interval,           \* argument interval
    since,              \* argument since (None when omitted)
    until,              \* argument until
    current_since,      \* params["s"] of the next request
    current_until,      \* params["u"] of the next request
    combined_result,    \* the non-data keys captured so far
    combined_data,      \* the accumulator of stitched entries
    empty_chunks_count, \* consecutive empty pages seen
    pc,                 \* "loop" | "return" | "done"; "call" | "single" | "deliver"
                        \* | "convert" | "raised" in the other entry points
    exit,               \* how the loop was left: "none" | "empties" | "error" | "range"
    result,             \* the returned mapping, once pc = "done"
    log,                \* history: one record per page request issued
    call,               \* the arguments of fetch_bulk_metric (NoCall outside it)
    lookups,            \* metadata lookups issued by fetch_bulk_metric
    bulk_response,      \* argument bulk_response of convert_bulk_to_dataframe
    output_structure,   \* argument output_structure of convert_bulk_to_dataframe
    frame,              \* what convert_bulk_to_dataframe or convert_to_dataframe
                        \* returned
    raw_data,           \* argument data of convert_to_dataframe
    path,               \* argument path of convert_to_dataframe and fetch_metric
    none_first          \* the order in which a set of this process yields its
                        \* elements: TRUE when None comes before the string
                        \* 'None' (it varies with the hash seed of the process)

\* what the paginator never touches
io == << call, lookups, bulk_response, output_structure, frame, raw_data, path,
        none_first >>

vars == << source, interval, since, until, current_since, current_until,
           combined_result, combined_data, empty_chunks_count, pc, exit, result,
           log, call, lookups, bulk_response, output_structure, frame,
           raw_data, path,
                    none_first >>

----------------------------------------------------------------------------
(* Bounds of the model                                                     *)

\* longest requested range, counted in windows of max_timerange seconds
MaxWindows == 4
\* most entries a page of the rich source lists
MaxEntries == 2

----------------------------------------------------------------------------
(* Values                                                                  *)

\* Python's None for the omitted since argument (the timestamps of the model
\* are >= 0, so that no timestamp is taken for it)
None == 0 - 1
\* marks a key that a mapping does not hold
NoKey == "<no key>"

Min(x, y) == IF x <= y THEN x ELSE y

Intervals == {"10m", "1h", "24h", "1w", "1month"}

\* mutant: a month of 30 days for the daily resolution
BULK_MAX_DAYS_Month30(i) ==
    CASE i = "10m"    -> 10
      [] i = "1h"     -> 10
      [] i = "24h"    -> 30
      [] i = "1w"     -> 93
      [] i = "1month" -> 93

BULK_MAX_DAYS(i) ==
    CASE i = "10m"    -> 10
      [] i = "1h"     -> 10
      [] i = "24h"    -> 31
      [] i = "1w"     -> 93
      [] i = "1month" -> 93

\* max_timerange = max_days * 24 * 60 * 60
max_timerange(i) == BULK_MAX_DAYS(i) * 24 * 60 * 60

\* direction = "forward" if since is not None else "backward"
direction(s) == IF s # None THEN "forward" ELSE "backward"

\* the first window, lines 355-360
FirstSince(s, u, W) == IF direction(s) = "forward" THEN s ELSE u - W
FirstUntil(s, u, W) == IF direction(s) = "forward" THEN Min(s + W, u) ELSE u


----------------------------------------------------------------------------
(* merge_bulk_data (utils.py)                                              *)
(*                                                                         *)
(* A record of a bulk array is [a, network, v]: the asset tag, one         *)
(* secondary tag and the value; a tag the record does not hold is NoKey.   *)
(* An entry is [t, bulk].  A Python dict keyed by asset is held as the     *)
(* sequence of its values in insertion order.                              *)

Rec(asset, net, val) == [a |-> asset, network |-> net, v |-> val]
Entry(time, recs) == [t |-> time, bulk |-> recs]

\* asset_data['a'] raises KeyError for some record of recs
LacksA(recs) == \E i \in DOMAIN recs : recs[i].a = NoKey

\* existing_assets[asset_data['a']] = asset_data: an existing key keeps its
\* position and takes the new value, a new key goes last
DictSet(d, rec) ==
    IF \E i \in DOMAIN d : d[i].a = rec.a
    THEN [i \in DOMAIN d |-> IF d[i].a = rec.a THEN rec ELSE d[i]]
    ELSE Append(d, rec)

RECURSIVE DictSetAll(_, _)
DictSetAll(d, recs) ==
    IF recs = << >> THEN d
    ELSE DictSetAll(DictSet(d, Head(recs)), Tail(recs))

\* lines 134-143: the bulk array of existing_item after item was merged into
\* it; a KeyError leaves existing_item['bulk'] as it was
MergeBulk(existing_bulk, item_bulk) ==
    IF LacksA(existing_bulk) \/ LacksA(item_bulk)
    THEN [raised |-> TRUE, bulk |-> existing_bulk]
    ELSE [raised |-> FALSE,
          bulk |-> DictSetAll(DictSetAll(<< >>, existing_bulk), item_bulk)]

\* mutant: no timestamp is ever found in time_map
TimeMapIndex_Missing(data, time) == 0

\* time_map[t]: the index of the item the mapping of line 126 holds for t
\* (the last one listed with that t), 0 when t is no key of it
TimeMapIndex(data, time) ==
    IF \E i \in DOMAIN data : data[i].t = time
    THEN CHOOSE i \in DOMAIN data :
            /\ data[i].t = time
            /\ \A j \in DOMAIN data : data[j].t = time => j <= i
    ELSE 0

\* lines 131-146: the loop over chunk_data.  data is combined_data with the
\* in-place updates made so far, new_items the items set aside.
RECURSIVE MergeItems(_, _, _)
MergeItems(data, chunk, new_items) ==
    IF chunk = << >>
    THEN [raised |-> FALSE, data |-> data, new_items |-> new_items]
    ELSE LET item == Head(chunk)
             k    == TimeMapIndex(data, item.t)
         IN  IF k = 0
             THEN MergeItems(data, Tail(chunk), Append(new_items, item))
             ELSE LET m == MergeBulk(data[k].bulk, item.bulk)
                  IN  IF m.raised
                      THEN [raised |-> TRUE, data |-> data, new_items |-> new_items]
                      ELSE MergeItems([data EXCEPT ![k].bulk = m.bulk],
                                      Tail(chunk), new_items)

\* mutant: new items are appended whatever the direction
PlaceNewItems_Append(data, new_items, dir) == data \o new_items

\* lines 148-154: where the new items go
PlaceNewItems(data, new_items, dir) ==
    IF dir = "forward" THEN data \o new_items ELSE new_items \o data

\* merge_bulk_data(combined_data, chunk_data, direction).  raised: a KeyError
\* left the function; data is then the caller's combined_data, whose items
\* keep the in-place updates made before the error.
merge_bulk_data(data, chunk, dir) ==
    IF data = << >>
    THEN [raised |-> FALSE, data |-> chunk]
    ELSE LET r == MergeItems(data, chunk, << >>)
         IN  IF r.raised
             THEN [raised |-> TRUE, data |-> r.data]
             ELSE [raised |-> FALSE, data |-> PlaceNewItems(r.data, r.new_items, dir)]

----------------------------------------------------------------------------
(* The page source: what _make_request returns for one request             *)
(*                                                                         *)
(* A page is [raises, present, hasData, meta, data]: the request raised;   *)
(* or the payload is None (present = FALSE); or it is a mapping with the   *)
(* non-data pairs meta and, when hasData, the sequence data.  The n-th     *)
(* request of a call stamps its values with n, so that the page a value    *)
(* came from can be told.                                                  *)

RaisingPage == [raises |-> TRUE, present |-> FALSE, hasData |-> FALSE,
                meta |-> {}, data |-> << >>]
NonePage    == [raises |-> FALSE, present |-> FALSE, hasData |-> FALSE,
                meta |-> {}, data |-> << >>]
DictPage(m, has, d) == [raises |-> FALSE, present |-> TRUE, hasData |-> has,
                        meta |-> m, data |-> d]

Meta(n) == {<< "unit", n >>}

\* the pages that carry no data, and the failing request
BarePages(n) ==
    { RaisingPage, NonePage, DictPage(Meta(n), FALSE, << >>),
      DictPage(Meta(n), TRUE, << >>) }

\* the plain source: at most one entry, at the start of the window asked for
\* or, with a record that has no asset tag, at the time anchor (two pages
\* with that entry cannot be stitched: merge_bulk_data raises KeyError)
PlainPages(cs, cu, anchor, n) ==
    BarePages(n) \cup
    { DictPage(Meta(n), TRUE, << Entry(cs, << Rec("BTC", NoKey, n) >>) >>),
      DictPage(Meta(n), TRUE, << Entry(anchor, << Rec(NoKey, NoKey, n) >>) >>) }

\* bulk arrays of the rich source
Bulks(n) ==
    { << Rec("BTC", NoKey, n) >>,
      << Rec("BTC", "eth", n) >>,
      << Rec(NoKey, NoKey, n) >>,
      << Rec("BTC", NoKey, n), Rec("BTC", "eth", n) >>,
      << Rec("BTC", NoKey, n), Rec("ETH", NoKey, n) >> }

\* the rich source: up to MaxEntries entries, at the bounds of the window
\* asked for or at the time anchor (outside the window, as a rule), in any
\* order and with repetitions; with or without metadata
RichPages(cs, cu, anchor, n) ==
    LET Times    == {cs, cu, anchor}
        TimeSeqs == UNION { [1..k -> Times] : k \in 1..MaxEntries }
    IN  BarePages(n) \cup
        { DictPage(m, TRUE, [i \in DOMAIN ts |-> Entry(ts[i], b)]) :
            m \in {{}, Meta(n)}, ts \in TimeSeqs, b \in Bulks(n) }

\* the paired source: two entries, at the time anchor and one second later,
\* each with a bulk array of its own
PairedPages(anchor, n) ==
    BarePages(n) \cup
    { DictPage(Meta(n), TRUE, << Entry(anchor, b1), Entry(anchor + 1, b2) >>) :
        b1 \in Bulks(n), b2 \in Bulks(n) }

Pages(src, cs, cu, anchor, n) ==
    CASE src = "plain" -> PlainPages(cs, cu, anchor, n)
      [] src = "rich"  -> RichPages(cs, cu, anchor, n)
      [] OTHER         -> PairedPages(anchor, n)

----------------------------------------------------------------------------
(* _paginated_bulk_fetch (glassnode_client.py)                             *)

\* mutant: only a missing payload counts as empty
is_empty_MissingOnly(page) == ~page.present

\* line 371: not chunk_result or 'data' not in chunk_result or not chunk_result['data']
is_empty(page) ==
    \/ ~page.present
    \/ (page.meta = {} /\ ~page.hasData)
    \/ ~page.hasData
    \/ page.data = << >>

\* mutant: one empty page is enough to stop
EmptyLimitReached_AtOne(count) == count >= 1

\* line 375: empty_chunks_count >= 2
EmptyLimitReached(count) == count >= 2

\* lines 381-384: the metadata after a non-empty page
StoreMetadata(cr, page) == IF cr = {} THEN page.meta ELSE cr

\* mutant: the next forward window starts at the previous until
WindowUpdate_Overlap(s, u, cs, cu, W) ==
    IF direction(s) = "forward"
    THEN IF cu >= u
         THEN [stop |-> TRUE, s |-> cs, u |-> cu]
         ELSE [stop |-> FALSE, s |-> cu, u |-> Min(cu + W, u)]
    ELSE IF cs <= 0
         THEN [stop |-> TRUE, s |-> cs, u |-> cu]
         ELSE LET nu == cs - 1
                  ns == nu - W
              IN  [stop |-> FALSE, s |-> IF ns < 0 THEN 0 ELSE ns, u |-> nu]

\* mutant: the backward walk stops before a window that would start at <= 0
WindowUpdate_StopEarly(s, u, cs, cu, W) ==
    IF direction(s) = "forward"
    THEN IF cu >= u
         THEN [stop |-> TRUE, s |-> cs, u |-> cu]
         ELSE [stop |-> FALSE, s |-> cu + 1, u |-> Min(cu + 1 + W, u)]
    ELSE IF cs - 1 - W <= 0
         THEN [stop |-> TRUE, s |-> cs, u |-> cu]
         ELSE [stop |-> FALSE, s |-> cs - 1 - W, u |-> cs - 1]

\* mutant: a forward window is followed by one of half the width
WindowUpdate_HalfStep(s, u, cs, cu, W) ==
    IF direction(s) = "forward"
    THEN IF cu >= u
         THEN [stop |-> TRUE, s |-> cs, u |-> cu]
         ELSE [stop |-> FALSE, s |-> cu + 1, u |-> Min(cu + 1 + W \div 2, u)]
    ELSE IF cs <= 0
         THEN [stop |-> TRUE, s |-> cs, u |-> cu]
         ELSE LET nu == cs - 1
                  ns == nu - W
              IN  [stop |-> FALSE, s |-> IF ns < 0 THEN 0 ELSE ns, u |-> nu]

\* mutant: one second is left out between two windows
WindowUpdate_Gap(s, u, cs, cu, W) ==
    IF direction(s) = "forward"
    THEN IF cu >= u
         THEN [stop |-> TRUE, s |-> cs, u |-> cu]
         ELSE [stop |-> FALSE, s |-> cu + 2, u |-> Min(cu + 2 + W, u)]
    ELSE IF cs <= 0
         THEN [stop |-> TRUE, s |-> cs, u |-> cu]
         ELSE LET nu == cs - 2
                  ns == nu - W
              IN  [stop |-> FALSE, s |-> IF ns < 0 THEN 0 ELSE ns, u |-> nu]

\* lines 395-406: the window update; stop = the loop breaks
WindowUpdate(s, u, cs, cu, W) ==
    IF direction(s) = "forward"
    THEN IF cu >= u
         THEN [stop |-> TRUE, s |-> cs, u |-> cu]
         ELSE [stop |-> FALSE, s |-> cu + 1, u |-> Min(cu + 1 + W, u)]
    ELSE IF cs <= 0
         THEN [stop |-> TRUE, s |-> cs, u |-> cu]
         ELSE LET nu == cs - 1
                  ns == nu - W
              IN  [stop |-> FALSE, s |-> IF ns < 0 THEN 0 ELSE ns, u |-> nu]

W == max_timerange(interval)

LogEntry(page, outcome) ==
    [s |-> current_since, u |-> current_until, page |-> page, outcome |-> outcome,
     meta_before |-> combined_result, data_before |-> combined_data]

\* the end of an iteration that did not break inside the try block
Advance ==
    LET w == WindowUpdate(since, until, current_since, current_until, W)
    IN  /\ pc' = IF w.stop THEN "return" ELSE "loop"
        /\ exit' = IF w.stop THEN "range" ELSE "none"
        /\ current_since' = w.s
        /\ current_until' = w.u

ThePages ==
    Pages(source, current_since, current_until,
          FirstUntil(since, until, W), Len(log) + 1)

\* mutant: the except block goes on to the next window instead of breaking
ChunkRaises_Continue ==
    /\ pc = "loop"
    /\ \E page \in ThePages :
        /\ page.raises
        /\ log' = Append(log, LogEntry(page, "raised"))
    /\ Advance
    /\ UNCHANGED << source, interval, since, until, combined_result,
                    combined_data, empty_chunks_count, result >>
    /\ UNCHANGED io

\* the request raises: lines 389-392
ChunkRaises ==
    /\ pc = "loop"
    /\ \E page \in ThePages :
        /\ page.raises
        /\ log' = Append(log, LogEntry(page, "raised"))
    /\ pc' = "return"
    /\ exit' = "error"
    /\ UNCHANGED << source, interval, since, until, current_since, current_until,
                    combined_result, combined_data, empty_chunks_count, result >>
    /\ UNCHANGED io

\* an empty page: lines 373-376
ChunkEmpty ==
    /\ pc = "loop"
    /\ \E page \in ThePages :
        /\ ~page.raises
        /\ is_empty(page)
        /\ log' = Append(log, LogEntry(page, "empty"))
    /\ empty_chunks_count' = empty_chunks_count + 1
    /\ IF EmptyLimitReached(empty_chunks_count')
       THEN /\ pc' = "return"
            /\ exit' = "empties"
            /\ UNCHANGED << current_since, current_until >>
       ELSE Advance
    /\ UNCHANGED << source, interval, since, until, combined_result,
                    combined_data, result >>
    /\ UNCHANGED io

\* a non-empty page: lines 377-387
ChunkData ==
    /\ pc = "loop"
    /\ \E page \in ThePages :
        /\ ~page.raises
        /\ ~is_empty(page)
        /\ LET m == merge_bulk_data(combined_data, page.data, direction(since))
           IN  /\ empty_chunks_count' = 0
               /\ combined_result' = StoreMetadata(combined_result, page)
               /\ combined_data' = m.data
               /\ log' = Append(log, LogEntry(page,
                                 IF m.raised THEN "merge_raised" ELSE "merged"))
               /\ IF m.raised
                  THEN /\ pc' = "return"
                       /\ exit' = "error"
                       /\ UNCHANGED << current_since, current_until >>
                  ELSE Advance
    /\ UNCHANGED << source, interval, since, until, result >>
    /\ UNCHANGED io

\* lines 409-411
Return ==
    /\ pc = "return"
    /\ pc' = "done"
    /\ result' = [meta |-> combined_result, data |-> combined_data]
    /\ UNCHANGED << source, interval, since, until, current_since, current_until,
                    combined_result, combined_data, empty_chunks_count, exit, log >>
    /\ UNCHANGED io

Next == ChunkRaises \/ ChunkEmpty \/ ChunkData \/ Return

NoResult == [meta |-> {}, data |-> << >>]

\* outside fetch_bulk_metric there are no arguments of it
NoCall ==
    [entry |-> "none", since |-> None, until |-> None, limit |-> None,
     paginate |-> FALSE, return_format |-> NoKey,
     bulk_output_structure |-> NoKey, bulk_supported |-> FALSE, now |-> 0,
     tick |-> 0]

\* no conversion has been asked for
NoConversion ==
    /\ bulk_response = [dict |-> FALSE, hasData |-> FALSE, dataKind |-> "other",
                        data |-> << >>]
    /\ output_structure = NoKey
    /\ frame = [kind |-> "none",
                table |-> [index |-> << >>, columns |-> << >>, cells |-> << >>],
                keys |-> << >>, tables |-> << >>]
    /\ raw_data = [kind |-> "none"]
    /\ path = << >>
    /\ none_first = TRUE   \* no asset of a page is named None

\* the state after lines 346-360
Start(src, i, s, u) ==
    /\ source = src
    /\ interval = i
    /\ since = s
    /\ until = u
    /\ current_since = FirstSince(s, u, max_timerange(i))
    /\ current_until = FirstUntil(s, u, max_timerange(i))
    /\ combined_result = {}
    /\ combined_data = << >>
    /\ empty_chunks_count = 0
    /\ pc = "loop"
    /\ exit = "none"
    /\ result = NoResult
    /\ log = << >>
    /\ call = NoCall
    /\ lookups = 0
    /\ NoConversion

\* ranges of up to MaxWindows windows, ending on, one second before and one
\* second after a window boundary
ForwardSpans(i) ==
    { k * (max_timerange(i) + 1) + d : k \in 0..(MaxWindows - 1), d \in {0 - 1, 0} }
      \cup { MaxWindows * (max_timerange(i) + 1) - 1 }
BackwardUntils(i) ==
    { u \in { k * (max_timerange(i) + 1) + d :
                k \in 1..MaxWindows, d \in {0 - 2, 0 - 1, 0} } :
        u < MaxWindows * (max_timerange(i) + 1) - 1 }
      \cup { MaxWindows * (max_timerange(i) + 1) - 2 }

\* the window walk: any interval, ranges of 0..MaxWindows windows in both
\* directions, the plain source
InitWalk ==
    \E i \in Intervals :
        \/ \E s \in {1, 1000} : \E span \in ForwardSpans(i) :
               Start("plain", i, s, s + span)
        \/ \E u \in BackwardUntils(i) : Start("plain", i, None, u)

\* stitching: two windows in both directions, the rich source
InitStitch ==
    \E s \in {0, None} :
        Start("rich", "10m", s, 2 * max_timerange("10m") + 1)

\* stitching entries that differ: two windows in both directions, the paired
\* source
InitPaired ==
    \E s \in {0, None} :
        Start("paired", "10m", s, 2 * max_timerange("10m") + 1)

Spec == InitWalk /\ [][Next]_vars

\* the loop and the return statement are code that runs on without waiting
\* for anything but the answer to its request: a step that can be taken is
\* taken
SpecWalkFair == InitWalk /\ [][Next]_vars /\ WF_vars(Next)
SpecStitch == InitStitch /\ [][Next]_vars
SpecPaired == InitPaired /\ [][Next]_vars

----------------------------------------------------------------------------
(* The bulk payload that convert_bulk_to_dataframe reshapes (utils.py)     *)
(*                                                                         *)
(* A bulk item is [dict, hasV, v, tags]: whether it is a mapping, whether  *)
(* it holds the key v, the value (<< >> for null, << n >> for the number   *)
(* n) and the other pairs << name, value >> in the order the mapping lists *)
(* them, the asset tag a among them.  Tag values are strings, which str()  *)
(* leaves as they are.  A timestamp entry is [dict, hasT, t, hasBulk,      *)
(* bulkIsList, bulk].  A payload is [dict, hasData, dataKind, data]        *)
(* with dataKind "list", "null" (the key holds None) or "other".           *)

\* most items a bulk array of a reshaped payload lists
MaxItems == 2

Null == << >>
Num(n) == << n >>

Item(tags, val) == [dict |-> TRUE, hasV |-> TRUE, v |-> val, tags |-> tags]
TimestampEntry(time, items) ==
    [dict |-> TRUE, hasT |-> TRUE, t |-> time, hasBulk |-> TRUE,
     bulkIsList |-> TRUE, bulk |-> items]
Payload(entries) ==
    [dict |-> TRUE, hasData |-> TRUE, dataKind |-> "list", data |-> entries]

\* strings that a tag name, a series key, an asset label or a column name can
\* be, in the order of Python's sorted() and of pandas' sorted column labels
\* (by code point: "B" < "E" < "N" < "_" < "e")
Lexicon ==
    << "BTC", "BTC_BTC", "BTC_exchange_x", "BTC_exchange_x_network_eth",
       "BTC_network_eth", "BTC_network_eth_exchange_x", "BTC_value", "ETH",
       "ETH_ETH", "ETH_exchange_x", "ETH_exchange_x_network_eth",
       "ETH_network_eth", "ETH_network_eth_exchange_x", "ETH_value", "None",
       "None_None", "None_network_eth", "None_value", "exchange", "exchange_x", "exchange_x_network_eth", "network",
       "network_eth", "network_eth_exchange_x", "value", "value_exchange_x",
       "value_exchange_x_network_eth", "value_network_eth",
       "value_network_eth_exchange_x", "value_value" >>

StrRank(s) == CHOOSE i \in DOMAIN Lexicon : Lexicon[i] = s

\* sorted(S) for a set of strings
RECURSIVE SortedStrings(_)
SortedStrings(S) ==
    IF S = {} THEN << >>
    ELSE LET m == CHOOSE x \in S : \A y \in S : StrRank(x) <= StrRank(y)
         IN  << m >> \o SortedStrings(S \ {m})

\* the ascending order of a set of timestamps
RECURSIVE SortedTimes(_)
SortedTimes(S) ==
    IF S = {} THEN << >>
    ELSE LET m == CHOOSE x \in S : \A y \in S : x <= y
         IN  << m >> \o SortedTimes(S \ {m})

\* sep.join(parts)
RECURSIVE Join(_, _)
Join(parts, sep) ==
    IF parts = << >> THEN ""
    ELSE IF Len(parts) = 1 THEN parts[1]
    ELSE parts[1] \o sep \o Join(Tail(parts), sep)

Range(seq) == { seq[i] : i \in DOMAIN seq }

----------------------------------------------------------------------------
(* _flatten_bulk_response (utils.py)                                       *)

\* identifiers.pop('a', None): the asset tag, NoKey standing for None
AssetOf(item) ==
    IF \E i \in DOMAIN item.tags : item.tags[i][1] = "a"
    THEN LET i == CHOOSE j \in DOMAIN item.tags : item.tags[j][1] = "a"
         IN  item.tags[i][2]
    ELSE NoKey

\* the value the mapping holds for one of its tag names
TagValue(item, k) ==
    LET i == CHOOSE j \in DOMAIN item.tags : item.tags[j][1] = k
    IN  item.tags[i][2]

\* mutant: the parts are joined in the order the item lists its tags
metric_parts_Listed(item) ==
    LET others == SelectSeq(item.tags, LAMBDA p : p[1] # "a")
    IN  [ i \in DOMAIN others |-> others[i][1] \o "_" \o others[i][2] ]

\* [f"{k}_{identifiers[k]}" for k in sorted(identifiers.keys())]
metric_parts(item) ==
    LET names == SortedStrings({ item.tags[i][1] : i \in DOMAIN item.tags } \ {"a"})
    IN  [ i \in DOMAIN names |-> names[i] \o "_" \o TagValue(item, names[i]) ]

\* mutant: without other tags the key is 'value', whatever the asset
metric_key_ValueFallback(item) ==
    IF metric_parts(item) # << >> THEN Join(metric_parts(item), "_")
    ELSE "value"

\* "_".join(metric_parts) if metric_parts else (str(asset) if asset else 'value')
metric_key(item) ==
    IF metric_parts(item) # << >> THEN Join(metric_parts(item), "_")
    ELSE IF AssetOf(item) \notin {NoKey, ""} THEN AssetOf(item)
    ELSE "value"

FlatRecord(time, item) ==
    [t |-> time, asset |-> AssetOf(item), metric_key |-> metric_key(item),
     value |-> item.v]

\* the entries that the "continue" tests of lines 277-286 let through
EntryKept(e) == e.dict /\ e.hasT /\ e.hasBulk /\ e.bulkIsList

\* mutant: every item of a bulk list is flattened
ItemKept_Any(item) == TRUE

\* the items that the "continue" test of lines 289-291 lets through
ItemKept(item) == item.dict /\ item.hasV

\* the records one timestamp entry appends to flat_data
FlatOfEntry(e) ==
    IF ~EntryKept(e) THEN << >>
    ELSE LET kept == SelectSeq(e.bulk, ItemKept)
         IN  [ i \in DOMAIN kept |-> FlatRecord(e.t, kept[i]) ]

\* flat_data after the loop over data_list
RECURSIVE flat_data(_)
flat_data(data_list) ==
    IF data_list = << >> THEN << >>
    ELSE FlatOfEntry(Head(data_list)) \o flat_data(Tail(data_list))

all_assets(flat) == { flat[i].asset : i \in DOMAIN flat }
all_metric_keys(flat) == { flat[i].metric_key : i \in DOMAIN flat }

----------------------------------------------------------------------------
(* pandas' pivot_table and reindex, as _structure_bulk_dataframe calls     *)
(* them: pivot_table(index='t', columns=..., values='value') groups the    *)
(* rows by (t, column label), leaves out the rows whose label is None,     *)
(* takes the mean of the numbers of each group (aggfunc='mean' is the      *)
(* default, and it skips nulls), drops the groups that hold no number      *)
(* (dropna=True is the default) and lays the rest out with the timestamps  *)
(* and the labels in ascending order.  A cell is the fraction [num, den]   *)
(* in lowest terms; Missing is the cell that holds NaN.                    *)

RECURSIVE Gcd(_, _)
Gcd(x, y) == IF y = 0 THEN x ELSE Gcd(y, x % y)

RECURSIVE SumOf(_)
SumOf(nums) == IF nums = << >> THEN 0 ELSE Head(nums) + SumOf(Tail(nums))

Missing == [num |-> 0, den |-> 0]
Whole(n) == [num |-> n, den |-> 1]

\* mutant: the group keeps the number of its last row
Aggregate_Last(nums) == Whole(nums[Len(nums)])

\* the mean of the numbers of one group (a group holds at least one)
Aggregate(nums) ==
    LET g == Gcd(SumOf(nums), Len(nums))
    IN  [num |-> SumOf(nums) \div g, den |-> Len(nums) \div g]

EmptyTable == [index |-> << >>, columns |-> << >>, cells |-> << >>]

\* the rows that take part in the table: a label and a number
Live(rows) == SelectSeq(rows, LAMBDA r : r.col # NoKey /\ r.value # Null)

\* mutant: the labels of the rows without a number stay as columns
PivotColumns_KeepNull(rows) ==
    SortedStrings({ rows[i].col : i \in DOMAIN rows } \ {NoKey})

PivotColumns(rows) ==
    SortedStrings({ Live(rows)[i].col : i \in DOMAIN Live(rows) })

PivotIndex(rows) ==
    SortedTimes({ Live(rows)[i].t : i \in DOMAIN Live(rows) })

PivotCell(rows, time, label) ==
    LET group == SelectSeq(Live(rows), LAMBDA r : r.t = time /\ r.col = label)
    IN  IF group = << >> THEN Missing
        ELSE Aggregate([ i \in DOMAIN group |-> group[i].value[1] ])

\* rows are [t, col, value]
pivot_table(rows) ==
    [index   |-> PivotIndex(rows),
     columns |-> PivotColumns(rows),
     cells   |-> [ p \in Range(PivotIndex(rows)) \X Range(PivotColumns(rows))
                     |-> PivotCell(rows, p[1], p[2]) ]]

\* pivot.reindex(columns=labels): the columns become labels, in that order;
\* a label the table lacks is a column of missing cells
reindex(table, labels) ==
    [index   |-> table.index,
     columns |-> labels,
     cells   |-> [ p \in Range(table.index) \X Range(labels) |->
                     IF p[2] \in Range(table.columns) THEN table.cells[p]
                     ELSE Missing ]]

----------------------------------------------------------------------------
(* _structure_bulk_dataframe (utils.py)                                    *)
(*                                                                         *)
(* The outcome of a conversion is [kind, table, keys, tables]: kind is     *)
(* "raised" (ValueError), "table" (one DataFrame) or "dict" (a mapping     *)
(* with the keys in insertion order); NoKey is the key None.               *)

Raised == [kind |-> "raised", table |-> EmptyTable, keys |-> << >>, tables |-> << >>]
OneTable(tb) == [kind |-> "table", table |-> tb, keys |-> << >>, tables |-> << >>]
TableDict(ks, tbs) == [kind |-> "dict", table |-> EmptyTable, keys |-> ks, tables |-> tbs]

\* mutant: the asset always comes first in the name
create_wide_col_name_Prefixed(row) ==
    IF row.asset = NoKey THEN row.metric_key
    ELSE row.asset \o "_" \o row.metric_key

\* create_wide_col_name, lines 329-337
create_wide_col_name(row) ==
    IF row.asset = NoKey THEN row.metric_key
    ELSE IF row.metric_key = row.asset THEN row.asset
    ELSE row.asset \o "_" \o row.metric_key

\* str(a) if a is not None else 'None'
AssetLabel(a) == IF a = NoKey THEN "None" ELSE a

\* the rows handed to pivot_table: columns='wide_col', 'metric_key', 'asset'
WideRows(flat) ==
    [ i \in DOMAIN flat |-> [t |-> flat[i].t, col |-> create_wide_col_name(flat[i]),
                             value |-> flat[i].value] ]
KeyRows(flat) ==
    [ i \in DOMAIN flat |-> [t |-> flat[i].t, col |-> flat[i].metric_key,
                             value |-> flat[i].value] ]
AssetRows(flat) ==
    [ i \in DOMAIN flat |-> [t |-> flat[i].t, col |-> flat[i].asset,
                             value |-> flat[i].value] ]

\* lines 327-343
StructureWide(flat) ==
    OneTable(pivot_table(WideRows(flat)))

\* next((a for a in all_assets if str(a) == asset), asset), line 355: the
\* first element with that label that the set yields.  Two elements share a
\* label only when the set holds None and the string 'None'.
original_asset(assets, label) ==
    LET hits == { a \in assets : AssetLabel(a) = label }
    IN  IF hits = {NoKey, "None"}
        THEN (IF none_first THEN NoKey ELSE "None")
        ELSE CHOOSE a \in hits : TRUE

\* lines 345-360: one table per asset label, in the order of the categories,
\* under the key that original_asset finds for the label
StructureByAsset(flat) ==
    LET labels == SortedStrings({ AssetLabel(a) : a \in all_assets(flat) })
        sorted_metric_keys == SortedStrings(all_metric_keys(flat))
        keys == [ i \in DOMAIN labels |->
                    original_asset(all_assets(flat), labels[i]) ]
        group_df(label) ==
            SelectSeq(flat, LAMBDA r : AssetLabel(r.asset) = label)
        pivot(label) ==
            reindex(pivot_table(KeyRows(group_df(label))),
                    sorted_metric_keys)
    IN  TableDict(keys, [ a \in Range(keys) |-> pivot(AssetLabel(a)) ])

\* sorted([str(a) if a is not None else 'None' for a in all_assets]), line
\* 367: one label per element of the set, so that the label None stands
\* twice when the set holds None and the string 'None'
RECURSIVE SortedLabels(_)
SortedLabels(assets) ==
    IF assets = {} THEN << >>
    ELSE LET m == CHOOSE x \in assets :
                    \A y \in assets : StrRank(AssetLabel(x)) <= StrRank(AssetLabel(y))
         IN  << AssetLabel(m) >> \o SortedLabels(assets \ {m})

\* lines 362-376: one table per metric key, in the order of the sorted keys
StructureByMetric(flat) ==
    LET asset_cols == SortedLabels(all_assets(flat))
        keys == SortedStrings(all_metric_keys(flat))
        group_df(k) == SelectSeq(flat, LAMBDA r : r.metric_key = k)
        pivot(k) ==
            reindex(pivot_table(AssetRows(group_df(k))), asset_cols)
    IN  TableDict(keys, [ k \in all_metric_keys(flat) |-> pivot(k) ])

\* lines 325-380
structure_bulk_dataframe(flat, layout) ==
    CASE layout = "wide"           -> StructureWide(flat)
      [] layout = "dict_by_asset"  -> StructureByAsset(flat)
      [] layout = "dict_by_metric" -> StructureByMetric(flat)

----------------------------------------------------------------------------
(* convert_bulk_to_dataframe (utils.py)                                    *)

Layouts == {"wide", "dict_by_asset", "dict_by_metric"}

\* mutant: the empty result is an empty table whatever the layout
EmptyResult_AlwaysTable(layout) == OneTable(EmptyTable)

\* the empty result of a layout, lines 451-455 and 461-465
EmptyResult(layout) ==
    IF layout = "wide" THEN OneTable(EmptyTable) ELSE TableDict(<< >>, << >>)

\* the test of line 438
DataKeyMissing(payload) == ~payload.dict \/ ~payload.hasData

convert_bulk_to_dataframe(payload, layout) ==
    IF layout \notin Layouts THEN Raised
    ELSE IF DataKeyMissing(payload) THEN Raised
    ELSE IF payload.dataKind = "other" THEN Raised
    ELSE LET data_list == IF payload.dataKind = "null" THEN << >> ELSE payload.data
             flat == flat_data(data_list)
         IN  IF data_list = << >> THEN EmptyResult(layout)
             ELSE IF flat = << >> THEN EmptyResult(layout)
             ELSE structure_bulk_dataframe(flat, layout)

----------------------------------------------------------------------------
(* One call of convert_bulk_to_dataframe                                   *)

NotADict  == [dict |-> FALSE, hasData |-> FALSE, dataKind |-> "other", data |-> << >>]
NoDataKey == [dict |-> TRUE, hasData |-> FALSE, dataKind |-> "other", data |-> << >>]
NullData  == [dict |-> TRUE, hasData |-> TRUE, dataKind |-> "null", data |-> << >>]
OtherData == [dict |-> TRUE, hasData |-> TRUE, dataKind |-> "other", data |-> << >>]

NotConverted == [kind |-> "none", table |-> EmptyTable, keys |-> << >>, tables |-> << >>]

\* the paginator takes no part in a conversion
NoWalk ==
    /\ source = "plain"
    /\ interval = "24h"
    /\ since = None
    /\ until = 0
    /\ current_since = None
    /\ current_until = 0
    /\ combined_result = {}
    /\ combined_data = << >>
    /\ empty_chunks_count = 0
    /\ exit = "none"
    /\ result = NoResult
    /\ log = << >>

StartConvert(payload, layout, order) ==
    /\ NoWalk
    /\ call = NoCall
    /\ lookups = 0
    /\ pc = "convert"
    /\ bulk_response = payload
    /\ output_structure = layout
    /\ frame = NotConverted
    /\ raw_data = [kind |-> "none"]
    /\ path = << >>
    /\ none_first = order

\* the whole call: lines 433-468
Convert ==
    /\ pc = "convert"
    /\ frame' = convert_bulk_to_dataframe(bulk_response, output_structure)
    /\ pc' = IF frame'.kind = "raised" THEN "raised" ELSE "done"
    /\ UNCHANGED << source, interval, since, until, current_since, current_until,
                    combined_result, combined_data, empty_chunks_count, exit,
                    result, log, call, lookups, bulk_response, output_structure,
                    raw_data, path,
                    none_first >>

NextConvert == Convert

\* entries and items that are not what the flattener expects
OddItems ==
    { [dict |-> FALSE, hasV |-> FALSE, v |-> Null, tags |-> << >>],
      [dict |-> TRUE, hasV |-> FALSE, v |-> Null, tags |-> << << "a", "BTC" >> >>] }
OddEntries ==
    { [dict |-> FALSE, hasT |-> FALSE, t |-> 0, hasBulk |-> FALSE,
       bulkIsList |-> FALSE, bulk |-> << >>],
      [dict |-> TRUE, hasT |-> FALSE, t |-> 0, hasBulk |-> TRUE,
       bulkIsList |-> TRUE, bulk |-> << Item(<< << "a", "BTC" >> >>, Num(1)) >>],
      [dict |-> TRUE, hasT |-> TRUE, t |-> 100, hasBulk |-> FALSE,
       bulkIsList |-> FALSE, bulk |-> << >>],
      [dict |-> TRUE, hasT |-> TRUE, t |-> 100, hasBulk |-> TRUE,
       bulkIsList |-> FALSE, bulk |-> << >>],
      TimestampEntry(100, << >>) }
      \cup { TimestampEntry(100, << item >>) : item \in OddItems }

\* every listing order of every choice of tags
TagPairs == { << "a", "BTC" >>, << "a", "ETH" >>, << "exchange", "x" >>,
              << "network", "eth" >> }
TagLists ==
    { tags \in UNION { [1..n -> TagPairs] : n \in 0..3 } :
        \A i, j \in DOMAIN tags : i # j => tags[i][1] # tags[j][1] }

\* payloads of every shape, with at most one record
ShapePayloads ==
    { NotADict, NoDataKey, NullData, OtherData, Payload(<< >>) }
      \cup { Payload(<< e >>) : e \in OddEntries }
      \cup { Payload(<< TimestampEntry(100, << Item(tags, val) >>) >>) :
               tags \in TagLists, val \in {Num(1), Null} }

\* the records of the payloads with several records
TableItems ==
    { Item(<< << "a", "BTC" >> >>, Num(1)),
      Item(<< << "a", "BTC" >> >>, Num(3)),
      Item(<< << "a", "BTC" >> >>, Null),
      Item(<< << "a", "ETH" >> >>, Num(2)),
      Item(<< << "a", "ETH" >> >>, Null),
      Item(<< << "a", "BTC" >>, << "network", "eth" >> >>, Num(2)),
      Item(<< << "network", "eth" >>, << "a", "ETH" >> >>, Num(1)),
      Item(<< >>, Num(1)),
      Item(<< << "network", "eth" >> >>, Num(3)),
      Item(<< << "a", "value" >> >>, Num(3)) }

\* the records of a second entry
LaterItems ==
    { Item(<< << "a", "BTC" >> >>, Num(3)),
      Item(<< << "a", "ETH" >> >>, Null),
      Item(<< << "network", "eth" >> >>, Num(3)) }

\* one entry of up to MaxItems records at 100, then possibly one more record
\* at 100 again or at 200
TablePayloads ==
    LET bulks == UNION { [1..n -> TableItems] : n \in 1..MaxItems }
    IN  { Payload(<< TimestampEntry(100, b) >>) : b \in bulks }
          \cup { Payload(<< TimestampEntry(100, b), TimestampEntry(t2, << item >>) >>) :
                   b \in bulks, t2 \in {100, 200}, item \in LaterItems }

\* payloads that mix entries and items of the wrong shape with valid ones
MixedBulks ==
    { << Item(<< << "a", "BTC" >> >>, Num(1)), odd >> : odd \in OddItems }
      \cup { << odd, Item(<< << "a", "ETH" >> >>, Num(2)),
               Item(<< << "a", "BTC" >>, << "network", "eth" >> >>, Num(3)) >> :
               odd \in OddItems }
MixedPayloads ==
    { Payload(<< odd, TimestampEntry(100, b) >>) :
        odd \in OddEntries, b \in MixedBulks }
      \cup { Payload(<< TimestampEntry(100, b), odd, TimestampEntry(200, << item >>) >>) :
               odd \in OddEntries, b \in MixedBulks, item \in LaterItems }

\* payloads with an asset that is the string 'None', next to records
\* without asset
NoneItems ==
    { Item(<< << "a", "None" >> >>, Num(1)),
      Item(<< >>, Num(2)),
      Item(<< << "a", "None" >>, << "network", "eth" >> >>, Num(3)),
      Item(<< << "a", "BTC" >> >>, Num(1)) }
NonePayloads ==
    { Payload(<< TimestampEntry(100, b) >>) :
        b \in UNION { [1..n -> NoneItems] : n \in 1..MaxItems } }

\* the order of a set takes part only where an asset is named None: the
\* other payloads are converted under one order
InitConvert ==
    \/ \E payload \in ShapePayloads : \E layout \in Layouts \cup {"long"} :
           StartConvert(payload, layout, TRUE)
    \/ \E payload \in TablePayloads \cup MixedPayloads : \E layout \in Layouts :
           StartConvert(payload, layout, TRUE)
    \/ \E payload \in NonePayloads : \E layout \in Layouts :
         \E order \in BOOLEAN : StartConvert(payload, layout, order)

SpecConvert == InitConvert /\ [][NextConvert]_vars

----------------------------------------------------------------------------
(* fetch_bulk_metric (glassnode_client.py)                                 *)
(*                                                                         *)
(* call holds the arguments: since, until and limit (None when omitted),   *)
(* paginate, return_format and bulk_output_structure (NoKey when omitted), *)
(* what the metadata says of bulk support, the clock at the first reading  *)
(* of time.time() and the seconds that pass until the second one.  The     *)
(* client is constructed with return_format "raw".                         *)

return_format_default == "raw"

\* the keys of BULK_MAX_DAYS
HasMaxDays(i) == i \in Intervals

\* interval_seconds.get(interval, interval_seconds['24h']), utils.py lines 91-101
seconds_per_interval(i) ==
    CASE i = "10m"    -> 10 * 60
      [] i = "1h"     -> 60 * 60
      [] i = "24h"    -> 24 * 60 * 60
      [] i = "1d"     -> 24 * 60 * 60
      [] i = "1w"     -> 7 * 24 * 60 * 60
      [] i = "1month" -> 30 * 24 * 60 * 60
      [] OTHER        -> 24 * 60 * 60

\* utils.py lines 84-108, clock being what int(time.time()) reads there;
\* raised is the ValueError of a limit that is not positive
calculate_since_for_limit(i, lim, clock) ==
    IF lim <= 0
    THEN [raised |-> TRUE, since_ts |-> None]
    ELSE [raised |-> FALSE, since_ts |-> clock - lim * seconds_per_interval(i)]

\* line 504
UsesLimit == call.limit # None /\ call.limit > 0

\* lines 506 and 514
until_ts == IF UsesLimit \/ call.until = None THEN call.now ELSE call.until

\* line 509: with a limit, since is computed at the second reading of the clock
SinceArg ==
    IF UsesLimit
    THEN calculate_since_for_limit(interval, call.limit, call.now + call.tick).since_ts
    ELSE call.since

\* line 511
Paginates == IF UsesLimit THEN FALSE ELSE call.paginate

\* mutant: the range the caller gave is requested as it is
SingleSince_AsGiven(s, u, width) == IF s = None THEN u - width ELSE s

\* since_ts of the single request, lines 536-541
SingleSince(s, u, width) ==
    IF s = None THEN u - width
    ELSE IF (u - s) > width THEN u - width
    ELSE s

\* lines 482 and 484
effective_format ==
    IF call.return_format # NoKey THEN call.return_format ELSE return_format_default
effective_bulk_structure ==
    IF call.bulk_output_structure # NoKey THEN call.bulk_output_structure ELSE "wide"

\* mutant: what the metadata says of bulk support is not looked at
BulkSupported_Unchecked == TRUE

\* line 488: metadata.get("bulk_supported", False)
BulkSupported == call.bulk_supported

\* lines 481-546: everything up to the first data request
BulkCall ==
    /\ pc = "call"
    /\ lookups' = lookups + 1
    /\ IF ~BulkSupported \/ ~HasMaxDays(interval)
       THEN \* ValueError of line 489, KeyError of line 346 or of line 532
            /\ pc' = "raised"
            /\ UNCHANGED << since, until, current_since, current_until >>
       ELSE IF Paginates
       THEN \* lines 520-529 and 346-360
            /\ pc' = "loop"
            /\ since' = SinceArg
            /\ until' = until_ts
            /\ current_since' = FirstSince(SinceArg, until_ts, max_timerange(interval))
            /\ current_until' = FirstUntil(SinceArg, until_ts, max_timerange(interval))
       ELSE \* lines 532-545
            /\ pc' = "single"
            /\ since' = SingleSince(SinceArg, until_ts, max_timerange(interval))
            /\ until' = until_ts
            /\ current_since' = since'
            /\ current_until' = until_ts
    /\ UNCHANGED << source, interval, combined_result, combined_data,
                    empty_chunks_count, exit, result, log, call, bulk_response,
                    output_structure, frame, raw_data, path,
                    none_first >>

\* what a reshaped payload holds for a record and an entry of a page
ItemOfRec(rec) ==
    Item((IF rec.a = NoKey THEN << >> ELSE << << "a", rec.a >> >>)
           \o (IF rec.network = NoKey THEN << >> ELSE << << "network", rec.network >> >>),
         Num(rec.v))
EntryOfPage(e) ==
    TimestampEntry(e.t, [ i \in DOMAIN e.bulk |-> ItemOfRec(e.bulk[i]) ])
PayloadOfData(data) == Payload([ i \in DOMAIN data |-> EntryOfPage(data[i]) ])
PayloadOfPage(page) ==
    IF ~page.present THEN NotADict
    ELSE IF ~page.hasData THEN NoDataKey
    ELSE PayloadOfData(page.data)

\* line 548: the single request of a call that does not paginate
SingleRequest ==
    /\ pc = "single"
    /\ \E page \in ThePages :
        /\ log' = Append(log, LogEntry(page, IF page.raises THEN "raised" ELSE "single"))
        /\ IF page.raises
           THEN /\ pc' = "raised"
                /\ UNCHANGED bulk_response
           ELSE /\ pc' = "fetched"
                /\ bulk_response' = PayloadOfPage(page)
    /\ UNCHANGED << source, interval, since, until, current_since, current_until,
                    combined_result, combined_data, empty_chunks_count, exit,
                    result, call, lookups, output_structure, frame, raw_data,
                    path, none_first >>

RawReturned == [kind |-> "raw", table |-> EmptyTable, keys |-> << >>, tables |-> << >>]

\* lines 551-565, on the raw response of either way of fetching
Deliver ==
    /\ call.entry = "fetch_bulk_metric"
    /\ pc \in {"done", "fetched"}
    /\ LET raw_response == IF pc = "done" THEN PayloadOfData(result.data)
                           ELSE bulk_response
           converted == convert_bulk_to_dataframe(raw_response, effective_bulk_structure)
       IN  /\ bulk_response' = raw_response
           /\ output_structure' = IF effective_format = "pandas"
                                  THEN effective_bulk_structure ELSE output_structure
           /\ frame' = CASE effective_format = "pandas" -> converted
                         [] effective_format = "raw"    -> RawReturned
                         [] OTHER                       -> Raised
           /\ pc' = IF frame'.kind = "raised" THEN "raised" ELSE "delivered"
    /\ UNCHANGED << source, interval, since, until, current_since, current_until,
                    combined_result, combined_data, empty_chunks_count, exit,
                    result, log, call, lookups, raw_data, path,
                    none_first >>

NextFetch ==
    BulkCall \/ SingleRequest \/ ChunkRaises \/ ChunkEmpty \/ ChunkData
      \/ Return \/ Deliver

\* the clock of the calls of the model
Now == 20000000

FetchCall(s, u, lim, pag, fmt, layout, supported, tk) ==
    [entry |-> "fetch_bulk_metric", since |-> s, until |-> u, limit |-> lim,
     paginate |-> pag, return_format |-> fmt, bulk_output_structure |-> layout,
     bulk_supported |-> supported, now |-> Now, tick |-> tk]

StartFetch(i, c) ==
    /\ source = "plain"
    /\ interval = i
    /\ since = None
    /\ until = 0
    /\ current_since = None
    /\ current_until = 0
    /\ combined_result = {}
    /\ combined_data = << >>
    /\ empty_chunks_count = 0
    /\ pc = "call"
    /\ exit = "none"
    /\ result = NoResult
    /\ log = << >>
    /\ call = c
    /\ lookups = 0
    /\ NoConversion

\* the formats and layouts a caller asks for
Formats ==
    { << NoKey, NoKey >>, << "raw", NoKey >>, << "pandas", NoKey >>,
      << "pandas", "dict_by_asset" >>, << "pandas", "dict_by_metric" >>,
      << "pandas", "long" >>, << "csv", NoKey >> }

\* the ranges a caller asks for: none, a short one, one that is seven seconds
\* longer than a window, and one that ends before it starts; until is omitted
\* or two windows after the epoch.  A backward walk from the clock would take
\* Now / max_timerange windows: the backward walks start at the given until.
Ranges(i, pag) ==
    LET width == IF HasMaxDays(i) THEN max_timerange(i) ELSE 24 * 60 * 60
    IN  { << None, 2 * width >>, << 2 * width - 5, 2 * width >>,
          << width - 7, 2 * width >>, << 2 * width + 3, 2 * width >>,
          << Now - 5, None >>, << Now - width - 7, None >> }
          \cup (IF pag THEN {} ELSE { << None, None >> })

Limits == {None, 0, 3, 200}

InitFetch ==
    \E i \in Intervals \cup {"1d"} : \E pag \in BOOLEAN :
      \E r \in Ranges(i, pag) : \E lim \in Limits : \E f \in Formats :
        \E supported \in BOOLEAN : \E tk \in {0, 1} :
          StartFetch(i, FetchCall(r[1], r[2], lim, pag, f[1], f[2], supported, tk))

SpecFetch == InitFetch /\ [][NextFetch]_vars

----------------------------------------------------------------------------
(* convert_to_dataframe (utils.py)                                         *)
(*                                                                         *)
(* The data argument is [kind, ...] with kind "none" (None), "text" (a     *)
(* string), "list" or "other" (any other object, empty or not).            *)
(* A text is [kind, form, header, stamps, rows]: form is "empty" (the      *)
(* string ""), "blank" (a string with no column to parse) or "grid";       *)
(* header lists the column names of the first line, which differ from one  *)
(* another; stamps tells how the cells of the time column are written:     *)
(* "epoch" (numbers), "date" (date strings) or "junk" (strings that are no *)
(* dates); rows holds one sequence of cells per line, a time cell as the   *)
(* epoch second it denotes.  An element of a list is                       *)
(* [dict, hasT, t, hasV, v, o, pairs]: o is "absent", "dict" or "other"    *)
(* and pairs lists the << key, value >> of the mapping o; t holds a number *)
(* of seconds where the element has the key, and the keys of an element    *)
(* are among t, v and o.  A path is the sequence of the segments that the  *)
(* separator / divides it into; its last segment is none of t, v and o.    *)
(* The table of a single series is [index, columns, cells] with one        *)
(* sequence of cells per row; Null is the cell that holds NaN.  An entry   *)
(* of the index is Stamp(t), the instant t seconds after the epoch, or NaT *)
(* (not a time), which pandas.to_datetime makes of a missing value.        *)

NoData == [kind |-> "none"]
Text(form, header, stamps, rows) ==
    [kind |-> "text", form |-> form, header |-> header, stamps |-> stamps,
     rows |-> rows]
List(items) == [kind |-> "list", items |-> items]
Other(empty) == [kind |-> "other", empty |-> empty]

NaT == << >>
Stamp(t) == << t >>

SeriesItem(time, val) ==
    [dict |-> TRUE, hasT |-> TRUE, t |-> time, hasV |-> TRUE, v |-> val,
     o |-> "absent", pairs |-> << >>]
NestedItem(time, prs) ==
    [dict |-> TRUE, hasT |-> TRUE, t |-> time, hasV |-> FALSE, v |-> Null,
     o |-> "dict", pairs |-> prs]

\* path.lstrip('/') and the right half of path.strip('/')
RECURSIVE StripLeft(_)
StripLeft(segs) ==
    IF Len(segs) > 1 /\ Head(segs) = "" THEN StripLeft(Tail(segs)) ELSE segs
RECURSIVE StripRight(_)
StripRight(segs) ==
    IF Len(segs) > 1 /\ segs[Len(segs)] = ""
    THEN StripRight(SubSeq(segs, 1, Len(segs) - 1))
    ELSE segs

\* lines 160-165
get_column_name_from_path(p) ==
    IF Len(p) > 1 THEN LET s == StripRight(StripLeft(p)) IN s[Len(s)]
    ELSE "value"

\* mutant: the time column is the one named t
timestamp_col_T == "t"

\* line 171
timestamp_col == "timestamp"

ColumnAt(header, name) == CHOOSE j \in DOMAIN header : header[j] = name
Without(seq, j) ==
    [ i \in 1..(Len(seq) - 1) |-> IF i < j THEN seq[i] ELSE seq[i + 1] ]

\* lines 167-203
dataframe_from_csv(text, p) ==
    IF text.form # "grid" THEN Raised
    ELSE IF timestamp_col \notin Range(text.header) THEN Raised
    ELSE IF text.stamps = "junk" /\ text.rows # << >> THEN Raised
    ELSE LET j == ColumnAt(text.header, timestamp_col)
             others == Without(text.header, j)
         IN  IF others = << >> THEN Raised
             ELSE OneTable(
                    [index   |-> [ i \in DOMAIN text.rows |-> Stamp(text.rows[i][j]) ],
                     columns |-> IF Len(others) = 1
                                 THEN << get_column_name_from_path(p) >>
                                 ELSE others,
                     cells   |-> [ i \in DOMAIN text.rows |->
                                     Without(text.rows[i], j) ]])

\* lines 205-226: an element that is no mapping makes pd.DataFrame or the
\* test of line 209 raise; the frame has a column t when an element has the
\* key, and then an element without it is a row whose t is missing;
\* without that column df['t'] raises KeyError, which line 226 turns into
\* ValueError
dataframe_from_json_standard(json_list, p) ==
    IF \E i \in DOMAIN json_list : ~json_list[i].dict \/ ~json_list[i].hasV
    THEN Raised
    ELSE IF \A i \in DOMAIN json_list : ~json_list[i].hasT THEN Raised
    ELSE OneTable(
           [index   |-> [ i \in DOMAIN json_list |->
                            IF json_list[i].hasT THEN Stamp(json_list[i].t)
                            ELSE NaT ],
            columns |-> << get_column_name_from_path(p) >>,
            cells   |-> [ i \in DOMAIN json_list |-> << json_list[i].v >> ]])

\* the keys of the records in the order of their first appearance
RECURSIVE FirstSeen(_, _)
FirstSeen(keys, seen) ==
    IF keys = << >> THEN seen
    ELSE FirstSeen(Tail(keys),
                   IF Head(keys) \in Range(seen) THEN seen
                   ELSE Append(seen, Head(keys)))
RECURSIVE KeysOf(_)
KeysOf(records) ==
    IF records = << >> THEN << >>
    ELSE [ k \in DOMAIN Head(records).pairs |-> Head(records).pairs[k][1] ]
           \o KeysOf(Tail(records))
PairValue(prs, key) ==
    IF \E k \in DOMAIN prs : prs[k][1] = key
    THEN (CHOOSE pr \in Range(prs) : pr[1] = key)[2]
    ELSE Null

\* record['t'] of {'t': item['t'], **item['o']}, line 236: a key t of the
\* mapping o replaces the timestamp of the item
RecordTime(item) ==
    IF \E k \in DOMAIN item.pairs : item.pairs[k][1] = "t"
    THEN PairValue(item.pairs, "t")
    ELSE Stamp(item.t)

\* lines 229-249: the columns are the keys of the records other than t
dataframe_from_json_nested(json_list) ==
    LET records == SelectSeq(json_list,
                     LAMBDA item : item.dict /\ item.hasT /\ item.o = "dict")
        columns == SelectSeq(FirstSeen(KeysOf(records), << >>),
                             LAMBDA key : key # "t")
    IN  IF records = << >> THEN OneTable(EmptyTable)
        ELSE OneTable(
               [index   |-> [ i \in DOMAIN records |-> RecordTime(records[i]) ],
                columns |-> columns,
                cells   |-> [ i \in DOMAIN records |->
                                [ c \in DOMAIN columns |->
                                    PairValue(records[i].pairs, columns[c]) ] ]])

\* lines 252-267
dataframe_from_json(json_list, p) ==
    IF json_list = << >> THEN OneTable(EmptyTable)
    ELSE IF ~json_list[1].dict \/ ~json_list[1].hasT THEN Raised
    ELSE IF json_list[1].hasV THEN dataframe_from_json_standard(json_list, p)
    ELSE IF json_list[1].o = "dict" THEN dataframe_from_json_nested(json_list)
    ELSE Raised

\* not data, line 398
Falsy(d) ==
    \/ d.kind = "none"
    \/ d.kind = "text" /\ d.form = "empty"
    \/ d.kind = "list" /\ d.items = << >>
    \/ d.kind = "other" /\ d.empty

\* lines 385-407
convert_to_dataframe(d, p) ==
    IF Falsy(d) THEN OneTable(EmptyTable)
    ELSE IF d.kind = "text" THEN dataframe_from_csv(d, p)
    ELSE IF d.kind = "list" THEN dataframe_from_json(d.items, p)
    ELSE Raised

\* one call of convert_to_dataframe
ConvertSeries ==
    /\ pc = "convert_series"
    /\ frame' = convert_to_dataframe(raw_data, path)
    /\ pc' = IF frame'.kind = "raised" THEN "raised" ELSE "done"
    /\ UNCHANGED << source, interval, since, until, current_since, current_until,
                    combined_result, combined_data, empty_chunks_count, exit,
                    result, log, call, lookups, bulk_response, output_structure,
                    raw_data, path,
                    none_first >>

\* one direct call of _dataframe_from_json_standard
ConvertStandard ==
    /\ pc = "standard"
    /\ frame' = dataframe_from_json_standard(raw_data.items, path)
    /\ pc' = IF frame'.kind = "raised" THEN "raised" ELSE "done"
    /\ UNCHANGED << source, interval, since, until, current_since, current_until,
                    combined_result, combined_data, empty_chunks_count, exit,
                    result, log, call, lookups, bulk_response, output_structure,
                    raw_data, path, none_first >>

\* one direct call of _dataframe_from_json_nested
ConvertNested ==
    /\ pc = "nested"
    /\ frame' = dataframe_from_json_nested(raw_data.items)
    /\ pc' = IF frame'.kind = "raised" THEN "raised" ELSE "done"
    /\ UNCHANGED << source, interval, since, until, current_since, current_until,
                    combined_result, combined_data, empty_chunks_count, exit,
                    result, log, call, lookups, bulk_response, output_structure,
                    raw_data, path, none_first >>

----------------------------------------------------------------------------
(* fetch_metric (glassnode_client.py)                                      *)
(*                                                                         *)
(* call holds the arguments as it does for fetch_bulk_metric; current_since *)
(* and current_until are params["s"] and params["u"] of the one request,   *)
(* None when the key is not set.                                           *)

\* lines 286-297
MetricSince ==
    IF UsesLimit
    THEN calculate_since_for_limit(interval, call.limit, call.now + call.tick).since_ts
    ELSE call.since
MetricUntil == IF UsesLimit THEN call.now ELSE call.until

\* what the one request of fetch_metric returns, or that it raises
Responses ==
    { [kind |-> "raises"], NoData, List(<< >>),
      List(<< SeriesItem(100, Num(1)), SeriesItem(200, Num(2)) >>),
      List(<< NestedItem(100, << << "a", Num(1) >> >>) >>),
      Text("grid", << "timestamp", "value" >>, "date",
           [ i \in 1..2 |-> << 100 * i, i >> ]),
      Text("grid", << "t", "v" >>, "epoch", [ i \in 1..2 |-> << 100 * i, i >> ]),
      Other(FALSE) }

\* lines 281-303: the parameters and the request
MetricRequest ==
    /\ pc = "metric"
    /\ current_since' = MetricSince
    /\ current_until' = MetricUntil
    /\ path' = StripLeft(path)
    /\ \E response \in Responses :
        /\ log' = Append(log, [s |-> MetricSince, u |-> MetricUntil,
                               page |-> response,
                               outcome |-> IF response.kind = "raises"
                                           THEN "raised" ELSE "single",
                               meta_before |-> combined_result,
                               data_before |-> combined_data])
        /\ IF response.kind = "raises"
           THEN pc' = "raised" /\ UNCHANGED raw_data
           ELSE pc' = "fetched" /\ raw_data' = response
    /\ UNCHANGED << source, interval, since, until, combined_result,
                    combined_data, empty_chunks_count, exit, result, call,
                    lookups, bulk_response, output_structure, frame,
                    none_first >>

\* lines 305-322
MetricReturn ==
    /\ call.entry = "fetch_metric"
    /\ pc = "fetched"
    /\ frame' = CASE effective_format = "pandas" ->
                       convert_to_dataframe(raw_data, path)
                  [] effective_format = "raw"    -> RawReturned
                  [] OTHER                       -> Raised
    /\ pc' = IF frame'.kind = "raised" THEN "raised" ELSE "delivered"
    /\ UNCHANGED << source, interval, since, until, current_since, current_until,
                    combined_result, combined_data, empty_chunks_count, exit,
                    result, log, call, lookups, bulk_response, output_structure,
                    raw_data, path,
                    none_first >>

\* the texts of the model: headers with and without a time column, up to two
\* rows at 100 and 200
Headers ==
    { << "timestamp", "value" >>, << "value", "timestamp" >>, << "t", "v" >>,
      << "t", "value" >>, << "time", "value" >>, << "value" >>,
      << "timestamp" >>, << "t" >>, << "timestamp", "a", "b" >>,
      << "t", "a", "b" >>, << "t", "timestamp" >> }
TimeNames == {"t", "time", "timestamp"}
GridRows(header, n) ==
    [ i \in 1..n |-> [ j \in DOMAIN header |->
        IF header[j] \in TimeNames THEN 100 * i ELSE 10 * i + j ] ]
Texts ==
    { Text("empty", << >>, "epoch", << >>), Text("blank", << >>, "epoch", << >>) }
      \cup { Text("grid", h, st, GridRows(h, n)) :
               h \in Headers, st \in {"epoch", "date", "junk"}, n \in 0..2 }

\* the lists of the model
OddSeriesItems ==
    { [dict |-> FALSE, hasT |-> FALSE, t |-> 0, hasV |-> FALSE, v |-> Null,
       o |-> "absent", pairs |-> << >>],
      [dict |-> TRUE, hasT |-> FALSE, t |-> 0, hasV |-> TRUE, v |-> Num(1),
       o |-> "absent", pairs |-> << >>],
      [dict |-> TRUE, hasT |-> TRUE, t |-> 100, hasV |-> FALSE, v |-> Null,
       o |-> "other", pairs |-> << >>],
      [dict |-> TRUE, hasT |-> TRUE, t |-> 100, hasV |-> FALSE, v |-> Null,
       o |-> "absent", pairs |-> << >>] }
GoodSeriesItems ==
    { SeriesItem(100, Num(1)), SeriesItem(200, Null),
      NestedItem(100, << << "a", Num(1) >>, << "b", Num(2) >> >>),
      NestedItem(200, << << "b", Num(3) >>, << "c", Null >> >>),
      NestedItem(100, << << "t", Num(5) >>, << "a", Num(1) >> >>),
      NestedItem(200, << << "a", Num(2) >>, << "t", Null >> >>),
      [dict |-> TRUE, hasT |-> TRUE, t |-> 300, hasV |-> TRUE, v |-> Num(3),
       o |-> "dict", pairs |-> << << "a", Num(4) >> >>] }
Lists ==
    { List(<< >>) }
      \cup { List(<< x >>) : x \in OddSeriesItems \cup GoodSeriesItems }
      \cup { List(<< x, y >>) : x \in GoodSeriesItems,
                                y \in GoodSeriesItems \cup OddSeriesItems }

Datas == { NoData, Other(TRUE), Other(FALSE) } \cup Texts \cup Lists

Paths ==
    { << "price" >>, << "market", "price_usd_close" >>, << "", "price" >>,
      << "market", "price", "" >>, << "", "market", "mvrv" >> }

StartSeries(d, p) ==
    /\ NoWalk
    /\ call = NoCall
    /\ lookups = 0
    /\ pc = "convert_series"
    /\ bulk_response = NotADict
    /\ output_structure = NoKey
    /\ frame = NotConverted
    /\ raw_data = d
    /\ path = p
    /\ none_first = TRUE

\* a direct call of one of the two converters of a JSON list
StartHelper(entry, d, p) ==
    /\ NoWalk
    /\ call = [NoCall EXCEPT !.entry = entry]
    /\ lookups = 0
    /\ pc = IF entry = "_dataframe_from_json_standard" THEN "standard" ELSE "nested"
    /\ bulk_response = NotADict
    /\ output_structure = NoKey
    /\ frame = NotConverted
    /\ raw_data = d
    /\ path = p
    /\ none_first = TRUE

\* a multiple of every period of seconds_per_interval
AlignedNow == 7 * 30 * 24 * 60 * 60

MetricCall(s, u, lim, fmt, clock, tk) ==
    [entry |-> "fetch_metric", since |-> s, until |-> u, limit |-> lim,
     paginate |-> FALSE, return_format |-> fmt, bulk_output_structure |-> NoKey,
     bulk_supported |-> FALSE, now |-> clock, tick |-> tk]

StartMetric(i, c, p) ==
    /\ source = "plain"
    /\ interval = i
    /\ since = None
    /\ until = 0
    /\ current_since = None
    /\ current_until = 0
    /\ combined_result = {}
    /\ combined_data = << >>
    /\ empty_chunks_count = 0
    /\ exit = "none"
    /\ result = NoResult
    /\ log = << >>
    /\ call = c
    /\ lookups = 0
    /\ pc = "metric"
    /\ bulk_response = NotADict
    /\ output_structure = NoKey
    /\ frame = NotConverted
    /\ raw_data = NoData
    /\ path = p
    /\ none_first = TRUE

\* one call of calculate_since_for_limit, utils.py lines 67-108
CalculateSince ==
    /\ pc = "calculate"
    /\ LET r == calculate_since_for_limit(interval, call.limit, call.now)
       IN  /\ pc' = IF r.raised THEN "raised" ELSE "done"
           /\ current_since' = IF r.raised THEN current_since ELSE r.since_ts
    /\ UNCHANGED << source, interval, since, until, current_until,
                    combined_result, combined_data, empty_chunks_count, exit,
                    result, log, call, lookups, bulk_response, output_structure,
                    frame, raw_data, path,
                    none_first >>

StartCalculate(i, lim, clock) ==
    /\ source = "plain"
    /\ interval = i
    /\ since = None
    /\ until = 0
    /\ current_since = None
    /\ current_until = 0
    /\ combined_result = {}
    /\ combined_data = << >>
    /\ empty_chunks_count = 0
    /\ exit = "none"
    /\ result = NoResult
    /\ log = << >>
    /\ call = [MetricCall(None, None, lim, NoKey, clock, 0)
                 EXCEPT !.entry = "calculate_since_for_limit"]
    /\ lookups = 0
    /\ pc = "calculate"
    /\ bulk_response = NotADict
    /\ output_structure = NoKey
    /\ frame = NotConverted
    /\ raw_data = NoData
    /\ path = << >>
    /\ none_first = TRUE
NextSeries ==
    ConvertSeries \/ ConvertStandard \/ ConvertNested \/ MetricRequest
      \/ MetricReturn \/ CalculateSince

\* direct conversions of every data and path; direct calls of the two
\* converters of a JSON list and of calculate_since_for_limit; calls of fetch_metric with and
\* without a range and a limit, at a clock that is and is not a multiple of
\* the period
InitSeries ==
    \/ \E d \in Datas : \E p \in Paths : StartSeries(d, p)
    \/ \E entry \in {"_dataframe_from_json_standard", "_dataframe_from_json_nested"} :
         \E d \in Lists : \E p \in Paths : StartHelper(entry, d, p)
    \/ \E i \in Intervals \cup {"1d", "2h"} : \E lim \in {0 - 2, 0 - 1, 0, 1, 3} :
         \E clock \in {Now, AlignedNow} : StartCalculate(i, lim, clock)
    \/ \E i \in Intervals \cup {"1d", "2h"} :
         \E r \in { << None, None >>, << 1000, None >>, << 1000, 2000 >>,
                    << None, 2000 >> } :
           \E lim \in {None, 0, 1, 3} :
             \E fmt \in {NoKey, "raw", "pandas", "csv"} :
               \E clock \in {Now, AlignedNow} : \E tk \in {0, 1} :
                 \E p \in { << "price" >>, << "", "market", "mvrv" >> } :
                   StartMetric(i, MetricCall(r[1], r[2], lim, fmt, clock, tk), p)

SpecSeries == InitSeries /\ [][NextSeries]_vars

----------------------------------------------------------------------------
(* Vocabulary of the claims                                                *)

Last(seq) == seq[Len(seq)]
Max(x, y) == IF x >= y THEN x ELSE y
CeilDiv(x, y) == (x + y - 1) \div y

\* the window size the specification states: max_days(resolution) * 86400
StatedW == BULK_MAX_DAYS(interval) * 86400

\* a page is EMPTY: payload missing, no data key, or empty data sequence
EmptyPayload(page) == ~page.present \/ ~page.hasData \/ page.data = << >>

\* the number of windows the range of the call holds
NumWindows ==
    IF direction(since) = "forward"
    THEN IF until < since THEN 1 ELSE CeilDiv(until - since + 1, StatedW + 1)
    ELSE IF until - StatedW <= 0 THEN 1
         ELSE 1 + CeilDiv(until - StatedW, StatedW + 1)

\* so far the source answered the first n requests with non-empty pages and
\* every later one with an empty page
NonEmptyThenEmpty(n) ==
    \A i \in DOMAIN log :
        /\ ~log[i].page.raises
        /\ EmptyPayload(log[i].page) <=> i > n

UniqueTimes(data) ==
    \A i, j \in DOMAIN data : i # j => data[i].t # data[j].t

Ascending(data) ==
    \A i, j \in DOMAIN data : i < j => data[i].t < data[j].t

\* the tag-set of a record: every key other than v
TagSet(rec) == << rec.a, rec.network >>
TagSets(recs) == { TagSet(recs[i]) : i \in DOMAIN recs }

\* the accumulator right after request i was processed
DataAfter(i) == IF i = Len(log) THEN combined_data ELSE log[i + 1].data_before

\* the page of request i was stitched: it was not empty and nothing raised
Stitched(i) == log[i].outcome = "merged"
NonEmptyPage(i) == log[i].outcome \in {"merged", "merge_raised"}

----------------------------------------------------------------------------
(* C1 - request count for N non-empty pages followed by empty pages        *)

\* C1 as stated: whenever the source answers the first N requests with
\* non-empty pages and all later ones with empty pages, the call has issued
\* exactly N + 2 requests when it returns.
C1_ExactlyNPlus2 ==
    pc = "done" =>
        \A n \in 0..(Len(log) + 1) :
            NonEmptyThenEmpty(n) => Len(log) = n + 2

\* the stitching of the page of request i raised
MergeRaised(i) == log[i].outcome = "merge_raised"

\* C1 as amended: the call issues N + 2 requests, or as many requests as the
\* range holds windows when that is fewer; but a request whose page cannot
\* be stitched is the last one, so that the call then issues at most N
\* requests.
C1_NPlus2OrRange ==
    pc \in {"return", "done"} =>
        \A n \in 0..(Len(log) + 1) :
            NonEmptyThenEmpty(n) =>
                IF \E i \in DOMAIN log : MergeRaised(i)
                THEN /\ MergeRaised(Len(log))
                     /\ \A i \in DOMAIN log : MergeRaised(i) => i = Len(log)
                     /\ Len(log) <= Min(n, NumWindows)
                ELSE Len(log) = Min(n + 2, NumWindows)

\* one non-empty page, two empty ones, a fourth window left unrequested
C1_Witness ==
    /\ pc = "done"
    /\ NonEmptyThenEmpty(1)
    /\ Len(log) = 3
    /\ NumWindows > 3

----------------------------------------------------------------------------
(* C2 - no duplicate TimePoints in the combined data                       *)

\* C2 as stated: whatever the pages, no two entries of the combined data
\* have the same t.
C2_AlwaysUnique == UniqueTimes(combined_data)

\* C2 as amended: if no single page lists the same t twice, no two entries
\* of the combined data have the same t.
C2_UniqueIfPagesUnique ==
    (\A i \in DOMAIN log : UniqueTimes(log[i].page.data))
        => UniqueTimes(combined_data)

\* two pages were stitched, the second repeating a t of the first and
\* bringing a new one
C2_Witness ==
    /\ Len(log) = 2
    /\ Stitched(1) /\ Stitched(2)
    /\ \A i \in DOMAIN log : UniqueTimes(log[i].page.data)
    /\ Len(log[2].page.data) = 2
    /\ \E k \in DOMAIN log[2].page.data :
           \E j \in DOMAIN log[1].page.data :
               log[2].page.data[k].t = log[1].page.data[j].t
    /\ Len(combined_data) = Len(log[1].page.data) + 1

----------------------------------------------------------------------------
(* C3 - stitching keeps every record with a tag-set of its own             *)

\* C3: every tag-set that a stitched page supplied for a TimePoint is still
\* held by the entry of that TimePoint (a record is replaced only by a
\* record with the identical tag-set).
C3_TagSetsKept ==
    \A i \in DOMAIN log :
        Stitched(i) =>
            \A k \in DOMAIN log[i].page.data :
                \E c \in DOMAIN combined_data :
                    /\ combined_data[c].t = log[i].page.data[k].t
                    /\ TagSets(log[i].page.data[k].bulk)
                           \subseteq TagSets(combined_data[c].bulk)

----------------------------------------------------------------------------
(* C4 - stitching the same entry twice                                     *)

\* C4: when two successive non-empty pages each supply one entry for a
\* TimePoint, with the same tag-sets, then after the second page there is
\* one entry for that TimePoint and it holds, for each of the tag-sets, one
\* record, carrying the value of the second page.
C4_SecondValueKept ==
    \A i \in DOMAIN log :
        (i > 1 /\ NonEmptyPage(i - 1) /\ NonEmptyPage(i)) =>
            \A k \in DOMAIN log[i].page.data : \A j \in DOMAIN log[i - 1].page.data :
                LET e1 == log[i - 1].page.data[j]
                    e2 == log[i].page.data[k]
                    d  == DataAfter(i)
                IN  ( /\ e1.t = e2.t
                      /\ TagSets(e1.bulk) = TagSets(e2.bulk)
                      /\ Cardinality({x \in DOMAIN log[i - 1].page.data :
                                        log[i - 1].page.data[x].t = e1.t}) = 1
                      /\ Cardinality({x \in DOMAIN log[i].page.data :
                                        log[i].page.data[x].t = e2.t}) = 1 )
                    => /\ Cardinality({c \in DOMAIN d : d[c].t = e2.t}) = 1
                       /\ \A c \in DOMAIN d :
                            d[c].t = e2.t =>
                              \A g \in TagSets(e2.bulk) :
                                /\ Cardinality({q \in DOMAIN d[c].bulk :
                                                  TagSet(d[c].bulk[q]) = g}) = 1
                                /\ \A q \in DOMAIN d[c].bulk :
                                     TagSet(d[c].bulk[q]) = g => d[c].bulk[q].v = i

----------------------------------------------------------------------------
(* C5 - the combined data is in ascending order of time                    *)

\* the page of request i lists its entries in strictly ascending order of t
\* and only inside the window it was asked for
PageInOrder(i) ==
    /\ Ascending(log[i].page.data)
    /\ \A k \in DOMAIN log[i].page.data :
           log[i].s <= log[i].page.data[k].t /\ log[i].page.data[k].t <= log[i].u

\* C5: in both directions, if every page so far was in order and inside its
\* window, the TimePoints of the combined data are strictly ascending after
\* every merge.
C5_Ascending ==
    (\A i \in DOMAIN log : PageInOrder(i)) => Ascending(combined_data)

\* a backward walk prepended a block of two entries to two entries
C5_Witness ==
    /\ direction(since) = "backward"
    /\ Len(log) = 2
    /\ \A i \in DOMAIN log : PageInOrder(i) /\ Stitched(i)
    /\ Len(log[1].page.data) = 2 /\ Len(log[2].page.data) = 2
    /\ Len(combined_data) = 4

----------------------------------------------------------------------------
(* C6 - the metadata is that of the first non-empty page                   *)

FirstNonEmpty == CHOOSE i \in DOMAIN log :
                    NonEmptyPage(i) /\ \A j \in 1..(i - 1) : ~NonEmptyPage(j)

\* C6: the metadata of the combined result is exactly the non-data pairs of
\* the first non-empty page fetched, whatever that page held.
C6_MetadataOfFirstPage ==
    IF \E i \in DOMAIN log : NonEmptyPage(i)
    THEN combined_result = log[FirstNonEmpty].page.meta
    ELSE combined_result = {}

----------------------------------------------------------------------------
(* C7 - a failing page request ends the call with what was accumulated     *)

\* C7: a request that raised is the last request of the call; the loop is
\* left, and metadata and data are what they were before that request, in
\* the accumulators and in the returned mapping.
C7_ErrorStops ==
    \A i \in DOMAIN log :
        log[i].page.raises =>
            /\ i = Len(log)
            /\ pc \in {"return", "done"}
            /\ combined_result = log[i].meta_before
            /\ combined_data = log[i].data_before
            /\ pc = "done" => result = [meta |-> log[i].meta_before,
                                        data |-> log[i].data_before]

\* the third request raised with a fourth window left; the call returned the
\* two entries and the metadata of the first two pages
C7_Witness ==
    /\ pc = "done"
    /\ Len(log) = 3
    /\ log[3].page.raises
    /\ NumWindows > 3
    /\ Len(result.data) = 2
    /\ result.meta # {}

----------------------------------------------------------------------------
(* C8 - two consecutive EMPTY pages end the walk, one does not             *)

\* the number of EMPTY pages at the end of the log
RECURSIVE TrailingEmpty(_)
TrailingEmpty(i) ==
    IF i = 0 THEN 0
    ELSE IF log[i].page.raises \/ ~EmptyPayload(log[i].page) THEN 0
    ELSE 1 + TrailingEmpty(i - 1)

\* the window of request i is the last one of the range
LastOfRange(i) ==
    IF direction(since) = "forward" THEN log[i].u >= until ELSE log[i].s <= 0

\* the window that follows the window of request i
WindowAfter(i) ==
    IF direction(since) = "forward"
    THEN << log[i].u + 1, Min(log[i].u + 1 + StatedW, until) >>
    ELSE << Max(log[i].s - 1 - StatedW, 0), log[i].s - 1 >>

\* request i got an EMPTY page and the request before it, if any, did not
SingleEmpty(i) ==
    /\ ~log[i].page.raises /\ EmptyPayload(log[i].page)
    /\ i > 1 => (log[i - 1].page.raises \/ ~EmptyPayload(log[i - 1].page))

\* C8: the walk is ended by EMPTY pages only when the last two pages were
\* both EMPTY (missing payload, no data key or empty data); after a single
\* EMPTY page the walk goes on and requests the next window of the range;
\* the empty counter is the number of EMPTY pages since the last non-empty
\* one, zero after any non-empty page.
C8_TwoEmptiesStop ==
    /\ exit = "empties" =>
          /\ Len(log) >= 2
          /\ EmptyPayload(Last(log).page) /\ ~Last(log).page.raises
          /\ EmptyPayload(log[Len(log) - 1].page) /\ ~log[Len(log) - 1].page.raises
    /\ \A i \in DOMAIN log :
          SingleEmpty(i) =>
              IF i < Len(log)
              THEN << log[i + 1].s, log[i + 1].u >> = WindowAfter(i)
              ELSE IF LastOfRange(i)
                   THEN exit = "range"
                   ELSE /\ pc = "loop" /\ exit = "none"
                        /\ << current_since, current_until >> = WindowAfter(i)
    /\ (log # << >> /\ exit # "error") => empty_chunks_count = TrailingEmpty(Len(log))
    /\ (log # << >> /\ NonEmptyPage(Len(log)) /\ exit # "error")
          => empty_chunks_count = 0

\* empty, non-empty, empty, and the walk goes on to a fourth request, each
\* kind of EMPTY page having occurred
C8_Witness ==
    /\ Len(log) = 4
    /\ SingleEmpty(1) /\ ~log[1].page.present
    /\ Stitched(2)
    /\ SingleEmpty(3) /\ log[3].page.present /\ ~log[3].page.hasData
    /\ EmptyPayload(log[4].page) /\ log[4].page.hasData /\ ~log[4].page.raises
    /\ exit = "empties"

----------------------------------------------------------------------------
(* C9 - the windows of a FORWARD walk                                      *)

\* C9: FORWARD, the first window is [since, min(since + W, until)]; a window
\* whose until has reached the target is the last one requested; otherwise
\* the next window is [old until + 1, min(old until + 1 + W, until)], and it
\* is requested unless an error or a second EMPTY page ended the walk.
C9_ForwardWindows ==
    direction(since) = "forward" =>
        /\ log = << >> =>
              << current_since, current_until >> = << since, Min(since + StatedW, until) >>
        /\ log # << >> =>
              << log[1].s, log[1].u >> = << since, Min(since + StatedW, until) >>
        /\ \A i \in DOMAIN log :
              i > 1 => /\ log[i - 1].u < until
                       /\ << log[i].s, log[i].u >> = WindowAfter(i - 1)
        /\ log # << >> =>
              /\ exit = "range" <=> (Last(log).u >= until /\ exit \notin {"error", "empties"})
              /\ exit = "none" =>
                    /\ pc = "loop"
                    /\ << current_since, current_until >> = WindowAfter(Len(log))

\* three windows requested, the last one cut short at the target until
C9_Witness ==
    /\ direction(since) = "forward"
    /\ exit = "range"
    /\ Len(log) = 3
    /\ log[3].u = until
    /\ log[3].u < log[3].s + StatedW
    /\ log[3].s = log[2].u + 1

----------------------------------------------------------------------------
(* C10 - the windows of a BACKWARD walk                                    *)

\* C10 as stated: BACKWARD, the first window is [until - W, until]; a next
\* window whose since would be <= 0 is never requested; otherwise the next
\* window is [max(old since - 1 - W, 0), old since - 1].
C10_StopsBeforeZero ==
    direction(since) = "backward" =>
        /\ log # << >> => << log[1].s, log[1].u >> = << until - StatedW, until >>
        /\ \A i \in DOMAIN log :
              i > 1 => /\ log[i].s > 0
                       /\ << log[i].s, log[i].u >> = WindowAfter(i - 1)

\* C10 as amended: BACKWARD, the first window is [until - W, until]; a window
\* whose own since is <= 0 is the last one requested; otherwise the next
\* window is [max(old since - 1 - W, 0), old since - 1], and it is requested
\* unless an error or a second EMPTY page ended the walk.
C10_BackwardWindows ==
    direction(since) = "backward" =>
        /\ log = << >> =>
              << current_since, current_until >> = << until - StatedW, until >>
        /\ log # << >> =>
              << log[1].s, log[1].u >> = << until - StatedW, until >>
        /\ \A i \in DOMAIN log :
              i > 1 => /\ log[i - 1].s > 0
                       /\ << log[i].s, log[i].u >> = WindowAfter(i - 1)
        /\ log # << >> =>
              /\ exit = "range" <=> (Last(log).s <= 0 /\ exit \notin {"error", "empties"})
              /\ exit = "none" =>
                    /\ pc = "loop"
                    /\ << current_since, current_until >> = WindowAfter(Len(log))

\* three windows requested, the last one clamped to start at 0
C10_Witness ==
    /\ direction(since) = "backward"
    /\ exit = "range"
    /\ Len(log) = 3
    /\ log[3].s = 0
    /\ log[3].u = log[2].s - 1
    /\ log[3].u < StatedW

----------------------------------------------------------------------------
(* Claims on fetch_bulk_metric                                             *)

\* the days of the stated table of window sizes
StatedDays(i) ==
    CASE i = "10m"    -> 10
      [] i = "1h"     -> 10
      [] i = "24h"    -> 31
      [] i = "1w"     -> 93
      [] i = "1month" -> 93
      [] OTHER        -> 0
StatedIntervals == {"10m", "1h", "24h", "1w", "1month"}

\* the paginator has been entered by a call of fetch_bulk_metric
PaginatorEntered ==
    call.entry = "fetch_bulk_metric" /\ call.bulk_supported /\ Paginates /\ pc # "call"

\* C11: the window of the paginator is 10, 10, 31, 93, 93 days of 86400
\* seconds for the resolutions 10m, 1h, 24h, 1w, 1month: the first request
\* spans exactly that much (backward walk), or the whole range when the range
\* is shorter (forward walk).  For any other resolution the paginator fails
\* before it issues a request: no request is logged, with no default window.
C11_WindowTableOrError ==
    PaginatorEntered =>
        IF interval \in StatedIntervals
        THEN /\ pc # "raised" \/ log # << >>
             /\ log # << >> =>
                  log[1].u - log[1].s =
                    IF since = None THEN StatedDays(interval) * 86400
                    ELSE Min(StatedDays(interval) * 86400, until - since)
        ELSE pc = "raised" /\ log = << >>

\* an unknown resolution made the paginator fail before any request
C11_Witness ==
    /\ PaginatorEntered
    /\ interval = "1d"
    /\ pc = "raised"
    /\ log = << >>
    /\ lookups = 1

\* C12: every data request of fetch_bulk_metric, paginated or not, carries a
\* window of at most max_days * 86400 seconds; without pagination a longer
\* range of the caller is shortened by moving since to until minus that.
C12_WindowWithinLimit ==
    call.entry = "fetch_bulk_metric" =>
        /\ \A i \in DOMAIN log :
               log[i].u - log[i].s <= StatedDays(interval) * 86400
        /\ (/\ ~Paginates
            /\ log # << >>
            /\ SinceArg # None
            /\ until_ts - SinceArg > StatedDays(interval) * 86400)
           => /\ log[1].u = until_ts
              /\ log[1].s = until_ts - StatedDays(interval) * 86400

\* a single request was issued for a range that the caller gave too long
C12_Witness ==
    /\ call.entry = "fetch_bulk_metric"
    /\ ~Paginates
    /\ call.since # None
    /\ ~UsesLimit
    /\ until_ts - call.since > StatedDays(interval) * 86400
    /\ Len(log) = 1
    /\ log[1].s = until_ts - StatedDays(interval) * 86400
    /\ log[1].s > call.since

----------------------------------------------------------------------------
(* Claims on convert_bulk_to_dataframe                                     *)

\* the call has ended, by a return or by an error
Converted == call.entry = "none" /\ pc \in {"done", "raised"} /\ frame.kind # "none"

\* C13: a mapping with no data key is treated as empty input and the empty
\* result of the layout is returned, whereas a data key that holds a value
\* that is not a sequence raises an error.
C13_MissingKeyIsEmpty ==
    (Converted /\ output_structure \in {"wide", "dict_by_asset", "dict_by_metric"}
       /\ bulk_response.dict)
    => /\ ~bulk_response.hasData =>
            /\ pc = "done"
            /\ frame.kind = IF output_structure = "wide" THEN "table" ELSE "dict"
            /\ frame.table = [index |-> << >>, columns |-> << >>, cells |-> << >>]
            /\ frame.keys = << >>
       /\ (bulk_response.hasData /\ bulk_response.dataKind = "other") =>
            pc = "raised"

\* C14: for each of the three layouts, an input whose data sequence is empty
\* returns the empty result of the layout (an empty table for wide, an empty
\* mapping for dict_by_asset and dict_by_metric) and never raises.
C14_EmptyDataEmptyResult ==
    (Converted /\ output_structure \in {"wide", "dict_by_asset", "dict_by_metric"}
       /\ bulk_response.dict /\ bulk_response.hasData
       /\ bulk_response.dataKind = "list" /\ bulk_response.data = << >>)
    => /\ pc = "done"
       /\ frame.kind = IF output_structure = "wide" THEN "table" ELSE "dict"
       /\ frame.table = [index |-> << >>, columns |-> << >>, cells |-> << >>]
       /\ frame.keys = << >>
       /\ frame.tables = << >>

\* an empty data sequence came back as an empty mapping
C14_Witness ==
    /\ Converted
    /\ output_structure = "dict_by_metric"
    /\ bulk_response = Payload(<< >>)
    /\ pc = "done"
    /\ frame.kind = "dict"
    /\ frame.keys = << >>

\* the flat records of the payload that was converted
Flat == flat_data(bulk_response.data)
FlatSet == { Flat[i] : i \in DOMAIN Flat }
Numbered == { r \in FlatSet : r.value # << >> }

\* the stated name of the wide column of a flat record
StatedWideName(r) ==
    IF r.asset = NoKey \/ r.metric_key = r.asset THEN r.metric_key
    ELSE r.asset \o "_" \o r.metric_key

\* a wide table was returned for a payload with records
WideReturned ==
    /\ Converted
    /\ pc = "done"
    /\ output_structure = "wide"
    /\ bulk_response.dataKind = "list"
    /\ Flat # << >>

\* data = [{t:100, bulk:[{a:BTC,v:1},{a:ETH,v:2}]}, {t:200, bulk:[{a:BTC,v:3}]}]
ExamplePayload ==
    Payload(<< TimestampEntry(100, << Item(<< << "a", "BTC" >> >>, << 1 >>),
                                      Item(<< << "a", "ETH" >> >>, << 2 >>) >>),
               TimestampEntry(200, << Item(<< << "a", "BTC" >> >>, << 3 >>) >>) >>)

\* index [100,200], columns [BTC,ETH], values [[1,2],[3,missing]]
ExampleWideTable ==
    [index   |-> << 100, 200 >>,
     columns |-> << "BTC", "ETH" >>,
     cells   |-> [ p \in {100, 200} \X {"BTC", "ETH"} |->
                     CASE p = << 100, "BTC" >> -> [num |-> 1, den |-> 1]
                       [] p = << 100, "ETH" >> -> [num |-> 2, den |-> 1]
                       [] p = << 200, "BTC" >> -> [num |-> 3, den |-> 1]
                       [] p = << 200, "ETH" >> -> [num |-> 0, den |-> 0] ]]

\* C15: in the wide layout a column is named seriesKey alone when the asset
\* is null or seriesKey equals the asset's string form, and asset_seriesKey
\* otherwise: every column bears the stated name of a record, and every
\* record with a number has a cell under its stated name.  The example input
\* gives index [100,200], columns [BTC,ETH], values [[1,2],[3,missing]].
C15_WideColumnNames ==
    WideReturned =>
        /\ \A c \in Range(frame.table.columns) :
               \E r \in FlatSet : c = StatedWideName(r)
        /\ \A r \in Numbered :
               /\ StatedWideName(r) \in Range(frame.table.columns)
               /\ r.t \in Range(frame.table.index)
               /\ frame.table.cells[<< r.t, StatedWideName(r) >>].den > 0
        /\ bulk_response = ExamplePayload => frame.table = ExampleWideTable

\* the example input was laid out wide
C15_Witness ==
    /\ WideReturned
    /\ bulk_response = ExamplePayload
    /\ frame.table = ExampleWideTable

Pairs(records) == { << r.asset, r.metric_key >> : r \in records }

\* C16 as stated: the wide table has as many columns as the flat records have
\* distinct (asset, seriesKey) pairs, pairs whose values are all null included.
C16_ColumnPerPair ==
    WideReturned => Len(frame.table.columns) = Cardinality(Pairs(FlatSet))

\* C16: the wide table has as many columns as there are distinct wide column
\* names among the flat records that hold a number; a pair whose values are
\* all null has no column, and pairs with one name share a column.
C16_ColumnPerNumberedName ==
    WideReturned =>
        Len(frame.table.columns) =
            Cardinality({ StatedWideName(r) : r \in Numbered })

\* a wide table that lacks the column of a pair whose values are all null
C16_Witness ==
    /\ WideReturned
    /\ \E r \in FlatSet :
          /\ \A q \in FlatSet : Pairs({q}) = Pairs({r}) => q.value = << >>
          /\ StatedWideName(r) \notin Range(frame.table.columns)
    /\ Len(frame.table.columns) < Cardinality(Pairs(FlatSet))

\* the numbers of the flat records at one time under one wide name, in the
\* order of processing
Colliding(time, name) ==
    LET hits == SelectSeq(Flat, LAMBDA r : r.t = time /\ r.value # << >>
                                            /\ StatedWideName(r) = name)
    IN  [ i \in DOMAIN hits |-> hits[i].value[1] ]

WideCells == Range(frame.table.index) \X Range(frame.table.columns)

\* C17 as stated: when several records at one time fall under one wide
\* column name, the cell holds the value of the record processed last.
C17_LastWriteWins ==
    WideReturned =>
        \A p \in WideCells :
            Len(Colliding(p[1], p[2])) >= 2 =>
                frame.table.cells[p] =
                    [num |-> Colliding(p[1], p[2])[Len(Colliding(p[1], p[2]))],
                     den |-> 1]

\* C17: when several records at one time fall under one wide column name,
\* the cell holds the arithmetic mean of their numbers.
C17_MeanOfColliding ==
    WideReturned =>
        \A p \in WideCells :
            Len(Colliding(p[1], p[2])) >= 2 =>
                /\ frame.table.cells[p].den > 0
                /\ frame.table.cells[p].num * Len(Colliding(p[1], p[2])) =
                     frame.table.cells[p].den * SumOf(Colliding(p[1], p[2]))

\* two records with the numbers 1 and 3 fell into one cell, which holds 2
C17_Witness ==
    /\ WideReturned
    /\ \E p \in WideCells :
          /\ Colliding(p[1], p[2]) = << 1, 3 >>
          /\ frame.table.cells[p] = [num |-> 2, den |-> 1]

\* a mapping of tables was returned for a payload with records
DictReturned(layout) ==
    /\ Converted
    /\ pc = "done"
    /\ output_structure = layout
    /\ bulk_response.dataKind = "list"
    /\ Flat # << >>

\* the items of the payload that the flattener keeps
KeptItems ==
    UNION { { e.bulk[i] : i \in { j \in DOMAIN e.bulk : ItemKept(e.bulk[j]) } } :
              e \in { d \in Range(bulk_response.data) : EntryKept(d) } }

\* every record carries an asset tag and a value, and nothing else
OnlyAssetAndValue ==
    \A item \in KeptItems : Len(item.tags) = 1 /\ item.tags[1][1] = "a"

\* the table with one column `value`, the index [100,200] and the given cells
ValueColumn(at100, at200) ==
    [index   |-> << 100, 200 >>,
     columns |-> << "value" >>,
     cells   |-> [ p \in {100, 200} \X {"value"} |->
                     IF p[1] = 100 THEN at100 ELSE at200 ]]

\* C18 as stated: for the example input, dict_by_asset returns for each asset
\* a table with the single column `value` and the index [100,200]: BTC holds
\* [1,3] and ETH holds [2, missing].
C18_ValueColumnFullIndex ==
    (DictReturned("dict_by_asset") /\ bulk_response = ExamplePayload) =>
        /\ Range(frame.keys) = {"BTC", "ETH"}
        /\ frame.tables["BTC"] =
             ValueColumn([num |-> 1, den |-> 1], [num |-> 3, den |-> 1])
        /\ frame.tables["ETH"] =
             ValueColumn([num |-> 2, den |-> 1], [num |-> 0, den |-> 0])

\* the times at which an asset has a number
TimesOf(a) == { r.t : r \in { q \in Numbered : q.asset = a } }

\* C18: for records that carry only an asset tag and a value, dict_by_asset
\* returns one table per asset; the seriesKey of a record is its asset, so
\* every table has one column per asset of the input; the index of the table
\* of an asset holds the times at which that asset has a number, and only
\* the column of that asset holds numbers there.  For the example input the
\* columns are [BTC,ETH]; BTC has index [100,200] with BTC = [1,3], ETH has
\* index [100] with ETH = [2].
C18_AssetColumnsOwnIndex ==
    (DictReturned("dict_by_asset") /\ OnlyAssetAndValue) =>
        /\ Range(frame.keys) = { r.asset : r \in FlatSet }
        /\ \A a \in Range(frame.keys) :
              /\ Range(frame.tables[a].columns) = { r.asset : r \in FlatSet }
              /\ Range(frame.tables[a].index) = TimesOf(a)
              /\ \A time \in TimesOf(a) :
                    /\ frame.tables[a].cells[<< time, a >>].den > 0
                    /\ \A b \in Range(frame.keys) \ {a} :
                          frame.tables[a].cells[<< time, b >>].den = 0
        /\ bulk_response = ExamplePayload =>
              /\ frame.keys = << "BTC", "ETH" >>
              /\ frame.tables["BTC"].index = << 100, 200 >>
              /\ frame.tables["BTC"].columns = << "BTC", "ETH" >>
              /\ frame.tables["BTC"].cells[<< 100, "BTC" >>] = [num |-> 1, den |-> 1]
              /\ frame.tables["BTC"].cells[<< 200, "BTC" >>] = [num |-> 3, den |-> 1]
              /\ frame.tables["ETH"].index = << 100 >>
              /\ frame.tables["ETH"].columns = << "BTC", "ETH" >>
              /\ frame.tables["ETH"].cells[<< 100, "ETH" >>] = [num |-> 2, den |-> 1]

\* the example input was split by asset
C18_Witness ==
    /\ DictReturned("dict_by_asset")
    /\ bulk_response = ExamplePayload
    /\ frame.tables["ETH"].index = << 100 >>
    /\ frame.tables["BTC"].columns = << "BTC", "ETH" >>

\* the column holds the missing marker in every row
AllMissing(table, c) ==
    \A time \in Range(table.index) : table.cells[<< time, c >>].den = 0

\* C19: within one call all tables of dict_by_asset have the same columns,
\* the distinct seriesKeys of the flat records, and all tables of
\* dict_by_metric have the same columns, the string forms of the assets of
\* the flat records with None for the null asset; a combination without a
\* record is a column of missing markers, it is not left out.  A table of
\* dict_by_asset is the table of the asset that is its key; a column of
\* dict_by_metric is the column of the assets that bear its label.
C19_SameColumnsEverywhere ==
    /\ DictReturned("dict_by_asset") =>
          \A a \in Range(frame.keys) :
              /\ Range(frame.tables[a].columns) = { r.metric_key : r \in FlatSet }
              /\ \A k \in { r.metric_key : r \in FlatSet } :
                    (~ \E r \in FlatSet : r.asset = a /\ r.metric_key = k)
                      => /\ k \in Range(frame.tables[a].columns)
                         /\ AllMissing(frame.tables[a], k)
    /\ DictReturned("dict_by_metric") =>
          \A k \in Range(frame.keys) :
              /\ Range(frame.tables[k].columns) =
                   { IF r.asset = NoKey THEN "None" ELSE r.asset : r \in FlatSet }
              /\ \A r \in FlatSet :
                    (~ \E q \in FlatSet :
                          /\ q.metric_key = k
                          /\ (IF q.asset = NoKey THEN "None" ELSE q.asset) =
                               (IF r.asset = NoKey THEN "None" ELSE r.asset))
                      => AllMissing(frame.tables[k],
                                    IF r.asset = NoKey THEN "None" ELSE r.asset)

\* the tags of an item other than a, as a set, and its asset
OtherTags(item) == { p \in Range(item.tags) : p[1] # "a" }
ValueUnder(item, name) ==
    (CHOOSE p \in OtherTags(item) : p[1] = name)[2]
Names(item) == { p[1] : p \in OtherTags(item) }

\* the stated seriesKey of an item, from the set of its tags
StatedSeriesKey(item) ==
    CASE Names(item) = {"exchange", "network"} ->
             "exchange_" \o ValueUnder(item, "exchange") \o "_" \o
             "network_" \o ValueUnder(item, "network")
      [] Names(item) = {"exchange"} -> "exchange_" \o ValueUnder(item, "exchange")
      [] Names(item) = {"network"}  -> "network_" \o ValueUnder(item, "network")
      [] Names(item) = {} ->
             IF \E p \in Range(item.tags) : p[1] = "a"
             THEN (CHOOSE p \in Range(item.tags) : p[1] = "a")[2]
             ELSE "value"

\* C20: the seriesKey of a record depends on the set of its tags other than a
\* and v, not on the order in which the record lists them: it is the
\* tag_value strings in the order of the tag names, joined with "_"; without
\* such a tag it is the asset, or the word value when the asset is null too.
\* The tables of dict_by_metric are keyed by the seriesKeys.
C20_SeriesKeyFromTagSet ==
    DictReturned("dict_by_metric") =>
        Range(frame.keys) = { StatedSeriesKey(item) : item \in KeptItems }

\* a record that lists network before exchange is keyed exchange first
C20_Witness ==
    /\ DictReturned("dict_by_metric")
    /\ \E item \in KeptItems :
          /\ Len(item.tags) = 3
          /\ item.tags[1][1] = "network"
          /\ item.tags[3][1] = "exchange"
    /\ frame.keys = << "exchange_x_network_eth" >>

----------------------------------------------------------------------------
(* Claims on convert_to_dataframe and fetch_metric                         *)

\* a direct call of convert_to_dataframe on a text with a header has returned
\* or raised
TextConverted ==
    /\ call.entry = "none"
    /\ pc \in {"done", "raised"}
    /\ raw_data.kind = "text"
    /\ raw_data.form = "grid"

\* nothing but the name of the time column can make the text an error: the
\* time cells can be read and there is a column besides the time column
ReadableText ==
    /\ raw_data.stamps # "junk"
    /\ Len(raw_data.header) >= 2

\* the table has the cells of the column named name as its time index
IndexedBy(name) ==
    /\ frame.kind = "table"
    /\ \E j \in DOMAIN raw_data.header :
        /\ raw_data.header[j] = name
        /\ frame.table.index = [ i \in DOMAIN raw_data.rows |->
                                    << raw_data.rows[i][j] >> ]

\* C21, as stated: convert_to_dataframe accepts a delimited text whose header
\* has a time column named t or timestamp and uses that column as the time
\* index; a text with neither column is an error.
C21_EitherTimeColumn ==
    (TextConverted /\ ReadableText) =>
        IF \E name \in {"t", "timestamp"} : name \in Range(raw_data.header)
        THEN IndexedBy("t") \/ IndexedBy("timestamp")
        ELSE frame.kind = "raised"

\* C21, amended: convert_to_dataframe accepts a delimited text whose header
\* has a column named timestamp and uses that column as the time index; a
\* text without that column is an error, a column named t or not.
C21_TimestampColumnOnly ==
    (TextConverted /\ ReadableText) =>
        IF "timestamp" \in Range(raw_data.header)
        THEN IndexedBy("timestamp")
        ELSE frame.kind = "raised"

\* a text with the header t,v and two rows was refused
C21_Witness ==
    /\ TextConverted
    /\ ReadableText
    /\ raw_data.header = << "t", "v" >>
    /\ Len(raw_data.rows) = 2
    /\ pc = "raised"
    /\ frame.kind = "raised"

\* the one request of a call of fetch_metric has been issued
MetricRequested == call.entry = "fetch_metric" /\ Len(log) = 1

\* the period of a resolution, in seconds
StatedPeriod(i) ==
    CASE i = "10m"    -> 600
      [] i = "1h"     -> 3600
      [] i = "24h"    -> 86400
      [] i = "1w"     -> 604800
      [] i = "1month" -> 2592000

\* how many multiples of period lie in [from, to], for 0 <= from <= to
Instants(from, to, period) == (to \div period) - CeilDiv(from, period) + 1

\* C22: with limit = L > 0, fetch_metric replaces the since and until of the
\* caller by until = now and a since such that the inclusive window
\* [since, now] holds exactly L sampling instants of the resolution (the
\* multiples of its period), whatever now is.
C22_WindowOfLInstants ==
    (MetricRequested /\ UsesLimit /\ interval \in StatedIntervals) =>
        /\ log[1].u = call.now
        /\ log[1].s >= 0
        /\ Instants(log[1].s, log[1].u, StatedPeriod(interval)) = call.limit

----------------------------------------------------------------------------
(* Claims on the limit and on the metadata of fetch_bulk_metric            *)

\* a call of fetch_bulk_metric that passed the metadata check, for an
\* interval of the window table
BulkAccepted ==
    /\ call.entry = "fetch_bulk_metric"
    /\ call.bulk_supported
    /\ interval \in StatedIntervals

\* C23: with limit = L > 0, fetch_bulk_metric does not paginate, issues
\* exactly one data request, and the window of that request is
\* [now - L * seconds(interval), now], for every L >= 1 and every interval of
\* the window table (now being either reading of the clock for since).
C23_LimitWindowCoversL ==
    (BulkAccepted /\ UsesLimit) =>
        /\ pc # "loop"
        /\ Len(log) <= 1
        /\ pc \in {"fetched", "delivered"} => Len(log) = 1
        /\ Len(log) = 1 =>
             /\ log[1].u = call.now
             /\ log[1].s \in
                  { clock - call.limit * StatedPeriod(interval) :
                      clock \in {call.now, call.now + call.tick} }

\* C24: when the metadata of the metric does not report bulk_supported as
\* true, fetch_bulk_metric raises and issues no data request, single or
\* paginated: the metadata lookup is the only request made.
C24_UnsupportedRaisesUnrequested ==
    (call.entry = "fetch_bulk_metric" /\ ~call.bulk_supported /\ pc # "call") =>
        /\ pc = "raised"
        /\ log = << >>
        /\ lookups = 1
        /\ frame.kind = "none"

\* a paginating call for an interval of the table was refused for its metadata
C24_Witness ==
    /\ call.entry = "fetch_bulk_metric"
    /\ ~call.bulk_supported
    /\ call.paginate
    /\ call.limit = None
    /\ interval = "1h"
    /\ pc = "raised"
    /\ log = << >>
    /\ lookups = 1

----------------------------------------------------------------------------
(* Claims on records without the asset tag and on failing pages            *)

\* the page of request i, or an accumulated entry that it meets again, holds
\* a record without the asset tag a
MeetsAbsentAsset(i) ==
    \E k \in DOMAIN log[i].page.data :
        \/ LacksA(log[i].page.data[k].bulk)
        \/ \E c \in DOMAIN log[i].data_before :
             /\ log[i].data_before[c].t = log[i].page.data[k].t
             /\ LacksA(log[i].data_before[c].bulk)

\* C25: stitching handles the records whose a is absent like any other
\* record: the entries of their page are merged and the walk goes on with the
\* next window instead of stopping.
C25_AbsentAssetStitched ==
    \A i \in DOMAIN log :
        (NonEmptyPage(i) /\ MeetsAbsentAsset(i)) =>
            /\ log[i].outcome = "merged"
            /\ (i = Len(log) => exit # "error")

----------------------------------------------------------------------------
(* Claims on the names of the wide columns and on malformed entries        *)

\* the entries of the payload that the flattener reads
KeptEntries ==
    SelectSeq(bulk_response.data, EntryKept)

\* inside every entry the records have pairwise distinct tag-sets, and no two
\* entries share a TimePoint
DistinctTagSets ==
    /\ \A k \in DOMAIN KeptEntries :
         LET kept == SelectSeq(KeptEntries[k].bulk, ItemKept)
         IN  \A i, j \in DOMAIN kept :
                 i # j => Range(kept[i].tags) # Range(kept[j].tags)
    /\ \A k, l \in DOMAIN KeptEntries :
         k # l => KeptEntries[k].t # KeptEntries[l].t

\* C26: if the records inside every bulk entry have pairwise distinct
\* tag-sets, no two flat records with the same TimePoint derive the same wide
\* column name.
C26_DistinctWideNames ==
    (Converted /\ output_structure = "wide" /\ bulk_response.dataKind = "list"
       /\ DistinctTagSets)
    => \A i, j \in DOMAIN Flat :
           (i # j /\ Flat[i].t = Flat[j].t)
             => create_wide_col_name(Flat[i]) # create_wide_col_name(Flat[j])

\* an entry and an item of the shape the payload is meant to have
WellFormedItem(item) == item.dict /\ item.hasV
WellFormedEntry(e) == e.dict /\ e.hasT /\ e.hasBulk /\ e.bulkIsList

\* the payload without its malformed entries and items
Cleaned(payload) ==
    LET entries == SelectSeq(payload.data, WellFormedEntry)
    IN  Payload([ k \in DOMAIN entries |->
                    TimestampEntry(entries[k].t,
                                   SelectSeq(entries[k].bulk, WellFormedItem)) ])

\* the payload holds an entry or an item that is malformed
HasMalformed ==
    \E k \in DOMAIN bulk_response.data :
        \/ ~WellFormedEntry(bulk_response.data[k])
        \/ \E i \in DOMAIN bulk_response.data[k].bulk :
               ~WellFormedItem(bulk_response.data[k].bulk[i])

\* C27: malformed entries of a bulk payload (a data element that is no
\* mapping or lacks t or bulk, a bulk that is no list, an item that is no
\* mapping or lacks v) never raise: for every layout the result is the result
\* of converting the payload without them.
C27_MalformedSkipped ==
    (Converted /\ output_structure \in Layouts /\ bulk_response.dataKind = "list"
       /\ HasMalformed)
    => /\ frame = convert_bulk_to_dataframe(Cleaned(bulk_response), output_structure)
       /\ (\E r \in FlatSet : r.value # Null) => pc = "done"

\* a payload with a malformed entry and a malformed item came back as the
\* mapping of its three valid records
C27_Witness ==
    /\ Converted
    /\ output_structure = "dict_by_asset"
    /\ Len(bulk_response.data) = 3
    /\ ~WellFormedEntry(bulk_response.data[2])
    /\ \E i \in DOMAIN bulk_response.data[1].bulk :
           ~WellFormedItem(bulk_response.data[1].bulk[i])
    /\ Len(Flat) = 3
    /\ pc = "done"
    /\ frame.kind = "dict"
    /\ frame.keys = << "BTC", "ETH" >>

----------------------------------------------------------------------------
(* Claims on the number and on the layout of the windows                   *)

\* FORWARD with since <= until: never more than
\* ceil((until - since + 1) / (W + 1)) requests, and one at least on return
ForwardRequestBound ==
    (direction(since) = "forward" /\ since <= until) =>
        /\ Len(log) <= CeilDiv(until - since + 1, StatedW + 1)
        /\ pc = "done" => Len(log) >= 1

\* BACKWARD: no request follows the one whose window since is <= 0
BackwardStopsAtZero ==
    direction(since) = "backward" =>
        \A i \in DOMAIN log : log[i].s <= 0 => i = Len(log)

\* C28: _paginated_bulk_fetch terminates for every page source, also one
\* that never returns an empty page and never fails: FORWARD with
\* since <= until issues at least 1 and at most
\* ceil((until - since + 1) / (W + 1)) requests, BACKWARD stops at the latest
\* after the request whose window since is <= 0, and every call returns.
C28_TerminatesWithinBound ==
    /\ [](ForwardRequestBound /\ BackwardStopsAtZero)
    /\ <>(pc = "done")

\* a forward walk over pages that all held data returned after as many
\* requests as the bound allows
C28_Witness ==
    /\ direction(since) = "forward"
    /\ since <= until
    /\ pc = "done"
    /\ exit = "range"
    /\ Len(log) >= 3
    /\ Len(log) = CeilDiv(until - since + 1, StatedW + 1)
    /\ \A i \in DOMAIN log : log[i].outcome = "merged"

\* the seconds of the window of request i
Seconds(i) == log[i].s .. log[i].u

\* C29: the windows requested in one call are pairwise disjoint and
\* contiguous (the next one starts one second after the previous one, or
\* ends one second before it), no window is requested twice, and when a
\* FORWARD walk with since <= until ends by reaching the target, the windows
\* together are exactly [since, until].
C29_WindowsTile ==
    /\ \A i \in DOMAIN log :
          i > 1 => IF direction(since) = "forward"
                   THEN log[i].s = log[i - 1].u + 1
                   ELSE log[i].u = log[i - 1].s - 1
    /\ \A i, j \in DOMAIN log :
          i < j => /\ << log[i].s, log[i].u >> # << log[j].s, log[j].u >>
                   /\ IF direction(since) = "forward"
                      THEN log[i].u < log[j].s
                      ELSE log[j].u < log[i].s
    /\ (direction(since) = "forward" /\ since <= until /\ exit = "range") =>
          /\ log[1].s = since
          /\ Last(log).u = until
          /\ \A i \in DOMAIN log : log[i].s <= log[i].u

\* a forward walk reached its target in three windows
C29_Witness ==
    /\ direction(since) = "forward"
    /\ since < until
    /\ exit = "range"
    /\ Len(log) = 3
    /\ log[1].s = since
    /\ log[2].s = log[1].u + 1
    /\ log[3].s = log[2].u + 1
    /\ log[3].u = until

\* the request of page i raised, or stitching page i raised
Failed(i) == log[i].outcome \in {"raised", "merge_raised"}

\* C30: a page whose processing fails contributes nothing to the result:
\* when fetching or stitching a page raises, the data that
\* _paginated_bulk_fetch returns is the accumulator as it was after the last
\* page processed successfully, and the failing page modified no entry.
C30_FailingPageLeavesNoTrace ==
    \A i \in DOMAIN log :
        Failed(i) =>
            /\ DataAfter(i) = log[i].data_before
            /\ pc = "done" => result.data = log[i].data_before

============================================================================
